---- MODULE Spec2Model ----
(***************************************************************************)
(* Grid-search optimizer for a PV + wind + hydro + battery plant           *)
(* (optimize_gridsearch_hydro_static_STREAMLITCHECK.py) and the part of    *)
(* the Streamlit front-end that drives it.                                 *)
(*                                                                         *)
(* Numbers.  The program computes in floating point; the model computes    *)
(* in exact arithmetic.  Powers and energies (kW, kWh) are integers.       *)
(* Fractions read from the input as percentages (efficiencies, SOC         *)
(* limits) are kept as integer percentages; x * f is Frac(x, f) and x / f  *)
(* is Unfrac(x, f).  The inputs are drawn so that every such product and   *)
(* quotient is an integer.  Percentages and costs computed by the program  *)
(* are exact rationals [n, d].                                             *)
(***************************************************************************)
EXTENDS Integers, Sequences, FiniteSets, TLC

VARIABLES
    pc,              \* which specification runs and where main() stands
    sim,             \* arguments of the running calculate_dispatch_with_hydro call
    hour,            \* h: the loop index of the dispatch loop
    current_soc,     \* current_soc of the dispatch loop
    row,             \* the trace entries written for hour h - 1
    cfg,             \* what read_inputs() returned for this run
    results,         \* the list `results` of grid_search_optimize_hydro
    windows_tested,  \* window_results of the latest find_optimal_hydro_window call
    dispatch,        \* the trace returned by the latest calculate_dispatch_with_hydro call of main
    search_traces,   \* history: the final trace of each grid point, in the order of results
    optimal,         \* what find_optimal_solution returned
    output_file,     \* what write_results wrote to OUTPUT_FILE
    session_results, \* st.session_state.results of the front-end
    range_args,      \* (start, end, step) of a generate_range_with_endpoint call
    generated,       \* what that call returned (<<>> before it returns)
    cost_args,       \* the function and arguments of a call of a cost function
    cost_result      \* <<what that call returned>> (<<>> before it returns)

dispatchVars == <<sim, hour, current_soc, row>>
mainVars == <<cfg, results, windows_tested, dispatch, search_traces, optimal,
              output_file, session_results>>
rangeVars == <<range_args, generated>>
costVars == <<cost_args, cost_result>>
vars == <<pc, dispatchVars, mainVars, rangeVars, costVars>>

\* Python's None.  A variable that holds None or a record holds <<>> or
\* <<record>>.
None == "None"

\* ------------------------------------------------------------------------
\* Arithmetic helpers
\* ------------------------------------------------------------------------

\* The element of a one-element set.  Only({e(y) : y \in {v}}) is e(v) with
\* v evaluated once, however often e uses it.
Only(S) == CHOOSE x \in S : TRUE

Max2(a, b) == IF a >= b THEN a ELSE b

Min2(a, b) == IF a <= b THEN a ELSE b

Min3(a, b, c) == Min2(Min2(a, b), c)

Abs(a) == IF a < 0 THEN -a ELSE a

\* x * f for a fraction f held as a percentage.
Frac(x, pct) == (x * pct) \div 100

\* x / f for a fraction f held as a percentage.
Unfrac(x, pct) == (x * 100) \div pct

\* Exact rationals [n |-> numerator, d |-> denominator], d > 0, in lowest terms.
\* A division by zero raises ZeroDivisionError, which ends the computation it
\* occurs in: every operation on it yields it again.
ZeroDivisionError == [n |-> 0, d |-> 0]

RECURSIVE GCD(_, _)
GCD(a, b) == IF b = 0 THEN a ELSE GCD(b, a % b)

Rat(n, d) ==
    IF d = 0 THEN ZeroDivisionError
    ELSE LET s == IF d < 0 THEN -1 ELSE 1
             g == GCD(Abs(n), Abs(d))
         IN  [n |-> (s * n) \div g, d |-> (s * d) \div g]

RInt(k) == [n |-> k, d |-> 1]

RAdd(a, b) == Rat(a.n * b.d + b.n * a.d, a.d * b.d)

RSub(a, b) == Rat(a.n * b.d - b.n * a.d, a.d * b.d)

RMul(a, b) == Rat(a.n * b.n, a.d * b.d)

RDiv(a, b) == Rat(a.n * b.d, a.d * b.n)

RLeq(a, b) == a.n * b.d <= b.n * a.d

RLess(a, b) == a.n * b.d < b.n * a.d

RECURSIVE RPow(_, _)
RPow(a, k) == IF k = 0 THEN RInt(1) ELSE RMul(a, RPow(a, k - 1))

\* The sum of field f over the hours of a trace: dispatch[f].sum()
RECURSIVE ColumnSum(_, _)
ColumnSum(trace, f) ==
    IF trace = <<>> THEN 0
    ELSE trace[1][f] + ColumnSum(Tail(trace), f)

\* ------------------------------------------------------------------------
\* HOMER NPC calculation functions.  Rates and money are exact rationals;
\* lifetimes are whole years.
\* ------------------------------------------------------------------------

\* A faulty variant that leaves out the division by (1 + i_inf).
RealRateUndeflated(nominal_rate, inflation_rate) == RSub(nominal_rate, inflation_rate)

\* i_real = (i_nom - i_inf) / (1 + i_inf)
calculate_real_discount_rate(nominal_rate, inflation_rate) ==
    RDiv(RSub(nominal_rate, inflation_rate), RAdd(RInt(1), inflation_rate))

\* A faulty variant without the branch for a rate of 0.
CrfWithoutLimit(discount_rate, lifetime_years) ==
    LET growth == RPow(RAdd(RInt(1), discount_rate), lifetime_years)
    IN  RDiv(RMul(discount_rate, growth), RSub(growth, RInt(1)))

\* CRF = [i(1+i)^n] / [(1+i)^n - 1], and 1/n at rate 0
calculate_crf(discount_rate, lifetime_years) ==
    IF discount_rate = RInt(0) THEN Rat(1, lifetime_years)
    ELSE LET growth == RPow(RAdd(RInt(1), discount_rate), lifetime_years)
         IN  RDiv(RMul(discount_rate, growth), RSub(growth, RInt(1)))

calculate_present_value_factor(discount_rate, lifetime_years) ==
    IF discount_rate = RInt(0) THEN RInt(lifetime_years)
    ELSE LET growth == RPow(RAdd(RInt(1), discount_rate), lifetime_years)
         IN  RDiv(RSub(growth, RInt(1)), RMul(discount_rate, growth))

\* A faulty variant that takes the used life for the remaining life.
SalvageOfUsedLife(component_capital, component_lifetime, project_lifetime, age_at_start) ==
    LET age_at_end == (age_at_start + project_lifetime) % component_lifetime
    IN  RMul(component_capital, Rat(age_at_end, component_lifetime))

\* Salvage = Capital * (Remaining_Life / Component_Lifetime)
calculate_salvage_value(component_capital, component_lifetime, project_lifetime, age_at_start) ==
    LET age_at_end == (age_at_start + project_lifetime) % component_lifetime
    IN  IF age_at_end = 0 THEN RInt(0)
        ELSE RMul(component_capital,
                  Rat(component_lifetime - age_at_end, component_lifetime))

\* A faulty variant of the loop that also charges a replacement that falls
\* on the last year of the project.
RECURSIVE ReplacementLoopInclusive(_, _, _, _, _)
ReplacementLoopInclusive(replacement_year, replacement_cost, component_lifetime, project_lifetime, discount_rate) ==
    IF replacement_year <= project_lifetime
    THEN RAdd(RDiv(replacement_cost,
                   RPow(RAdd(RInt(1), discount_rate), replacement_year)),
              ReplacementLoopInclusive(replacement_year + component_lifetime,
                                       replacement_cost, component_lifetime,
                                       project_lifetime, discount_rate))
    ELSE RInt(0)

\* The loop `while replacement_year < project_lifetime`, from replacement_year on.
RECURSIVE ReplacementLoop(_, _, _, _, _)
ReplacementLoop(replacement_year, replacement_cost, component_lifetime, project_lifetime, discount_rate) ==
    IF replacement_year < project_lifetime
    THEN RAdd(RDiv(replacement_cost,
                   RPow(RAdd(RInt(1), discount_rate), replacement_year)),
              ReplacementLoop(replacement_year + component_lifetime, replacement_cost,
                              component_lifetime, project_lifetime, discount_rate))
    ELSE RInt(0)

calculate_replacement_cost_pv(component_capital, component_lifetime, project_lifetime, discount_rate, replacement_cost_multiplier) ==
    IF component_lifetime >= project_lifetime THEN RInt(0)
    ELSE ReplacementLoop(component_lifetime,
                         RMul(component_capital, replacement_cost_multiplier),
                         component_lifetime, project_lifetime, discount_rate)

\* replacement_cost_multiplier=0.8
DefaultReplacementMultiplier == Rat(4, 5)

calculate_component_npc_homer(capital_cost, annual_om_cost, component_lifetime, project_lifetime, discount_rate, replacement_cost_multiplier) ==
    LET crf == calculate_crf(discount_rate, project_lifetime)
        replacement_pv == calculate_replacement_cost_pv(
            capital_cost, component_lifetime, project_lifetime, discount_rate,
            replacement_cost_multiplier)
        salvage_value == calculate_salvage_value(capital_cost, component_lifetime,
                                                 project_lifetime, 0)
        salvage_pv == RDiv(salvage_value,
                           RPow(RAdd(RInt(1), discount_rate), project_lifetime))
        pv_factor == calculate_present_value_factor(discount_rate, project_lifetime)
        om_pv == RMul(annual_om_cost, pv_factor)
        npc == RSub(RAdd(RAdd(capital_cost, replacement_pv), om_pv), salvage_pv)
    IN  [capital |-> capital_cost,
         replacement_pv |-> replacement_pv,
         om_pv |-> om_pv,
         salvage_pv |-> salvage_pv,
         npc |-> npc,
         annualized |-> RMul(npc, crf),
         crf |-> crf]

\* ------------------------------------------------------------------------
\* STEP 3: dispatch simulation
\* ------------------------------------------------------------------------

\* Hours of a day: hour_of_day = h % 24.
DayHours == 24

\* min_soc_kwh = min_soc * bess_capacity
MinSocKwh(p) == Frac(p.bess_capacity, p.bess_config.min_soc)

\* max_soc_kwh = max_soc * bess_capacity
MaxSocKwh(p) == Frac(p.bess_capacity, p.bess_config.max_soc)

\* A faulty start: the SOC the previous simulation ended with.
StaleSoc(bess_capacity) ==
    IF dispatch = <<>> THEN Frac(bess_capacity, 50)
    ELSE dispatch[Len(dispatch)].BESS_SOC_kWh

\* "Start with 50% SOC"
InitialSoc(bess_capacity) == Frac(bess_capacity, 50)

\* A faulty window that is still open in the hour it ends at.
HydroActiveInclusive(h, p) ==
    LET hour_of_day == h % DayHours
    IN  (hour_of_day >= p.hydro_window_start) /\ (hour_of_day <= p.hydro_window_end)

\* hydro_active for hour h
HydroActive(h, p) ==
    LET hour_of_day == h % DayHours
    IN  (hour_of_day >= p.hydro_window_start) /\ (hour_of_day < p.hydro_window_end)

\* A faulty variant without the clamp.
UnclampedSoc(soc, p) == soc

\* "Enforce SOC limits"
ClampSoc(soc, p) == Max2(MinSocKwh(p), Min2(soc, MaxSocKwh(p)))

\* A faulty deficit branch that takes from the battery only what it delivers.
DischargeBranchNoLoss(net_load, soc, p) ==
    LET available_discharge == Max2(0, soc - MinSocKwh(p))
        actual_discharge == Frac(available_discharge, p.bess_config.discharge_eff)
        bess_discharge == Min3(p.bess_power, actual_discharge, net_load)
    IN  [charge |-> 0,
         discharge |-> bess_discharge,
         unmet |-> Max2(0, net_load - bess_discharge),
         excess |-> 0,
         soc |-> soc - bess_discharge]

\* A faulty deficit branch: unmet counts the battery at its full power, whatever
\* it delivered.
DischargeBranchFullPower(net_load, soc, p) ==
    LET available_discharge == Max2(0, soc - MinSocKwh(p))
        actual_discharge == Frac(available_discharge, p.bess_config.discharge_eff)
        bess_discharge == Min3(p.bess_power, actual_discharge, net_load)
        energy_removed == IF bess_discharge > 0
                          THEN Unfrac(bess_discharge, p.bess_config.discharge_eff)
                          ELSE 0
    IN  [charge |-> 0,
         discharge |-> bess_discharge,
         unmet |-> net_load - p.bess_power,
         excess |-> 0,
         soc |-> soc - energy_removed]

\* The deficit branch (net_load > 0): discharge the battery, the rest is unmet.
DischargeBranch(net_load, soc, p) ==
    LET available_discharge == Max2(0, soc - MinSocKwh(p))
        actual_discharge == Frac(available_discharge, p.bess_config.discharge_eff)
        bess_discharge == Min3(p.bess_power, actual_discharge, net_load)
        energy_removed == IF bess_discharge > 0
                          THEN Unfrac(bess_discharge, p.bess_config.discharge_eff)
                          ELSE 0
    IN  [charge |-> 0,
         discharge |-> bess_discharge,
         unmet |-> Max2(0, net_load - bess_discharge),
         excess |-> 0,
         soc |-> soc - energy_removed]

\* A faulty surplus branch that forgets the charging loss in the excess.
ChargeBranchLossless(net_load, soc, p) ==
    LET excess == Abs(net_load)
        available_space == Max2(0, MaxSocKwh(p) - soc)
        max_charge == Frac(excess, p.bess_config.charge_eff)
        bess_charge == Min3(p.bess_power, available_space, max_charge)
    IN  [charge |-> bess_charge,
         discharge |-> 0,
         unmet |-> 0,
         excess |-> Max2(0, excess - bess_charge),
         soc |-> soc + bess_charge]

\* A faulty surplus branch that curtails the surplus and charges nothing.
ChargeBranchCurtailFirst(net_load, soc, p) ==
    [charge |-> 0, discharge |-> 0, unmet |-> 0, excess |-> Abs(net_load), soc |-> soc]

\* The surplus branch (net_load <= 0): charge the battery, the rest is excess.
ChargeBranch(net_load, soc, p) ==
    LET excess == Abs(net_load)
        available_space == Max2(0, MaxSocKwh(p) - soc)
        max_charge == Frac(excess, p.bess_config.charge_eff)
        bess_charge == Min3(p.bess_power, available_space, max_charge)
        energy_used == Unfrac(bess_charge, p.bess_config.charge_eff)
    IN  [charge |-> bess_charge,
         discharge |-> 0,
         unmet |-> 0,
         excess |-> Max2(0, excess - energy_used),
         soc |-> soc + bess_charge]

\* A faulty variant that leaves the hydro output in the net load.
NetIgnoringHydro(net0, hydro_output) == net0

\* net_load -= hydro_output[h]
NetAfterHydro(net0, hydro_output) == net0 - hydro_output

\* A faulty variant that runs hydro outside its window as well.
HydroAlwaysOn(net_load, hydro_active, hydro_capacity) ==
    IF net_load > 0 /\ hydro_capacity > 0 THEN Min2(net_load, hydro_capacity) ELSE 0

\* if net_load > 0 and hydro_active and hydro_capacity > 0:
\*     hydro_output[h] = min(net_load, hydro_capacity)
HydroOutput(net_load, hydro_active, hydro_capacity) ==
    IF net_load > 0 /\ hydro_active /\ hydro_capacity > 0
    THEN Min2(net_load, hydro_capacity)
    ELSE 0

\* A faulty variant that takes the profile as the output of any capacity.
PvUnscaled(pvsyst, pv_capacity, pv_baseline) == pvsyst

\* pv_avail = pvsyst_profile[h] * (pv_capacity / pv_baseline)
PvAvail(pvsyst, pv_capacity, pv_baseline) == (pvsyst * pv_capacity) \div pv_baseline

\* One iteration of the loop `for h in range(hours)`: the trace entries of
\* hour h and the SOC carried to the next hour.
DispatchHour(h, soc, load, pvsyst, windp, p) ==
    LET hydro_active == HydroActive(h, p)
        pv_avail == PvAvail(pvsyst, p.pv_capacity, p.solar_config.baseline_kw)
        wind_avail == IF p.wind_config.enabled THEN windp * p.wind_capacity ELSE 0
        total_renewable == pv_avail + wind_avail
        net0 == load - total_renewable
        hydro_output == HydroOutput(net0, hydro_active, p.hydro_capacity)
        net_load == NetAfterHydro(net0, hydro_output)
        b == IF net_load > 0 THEN DischargeBranch(net_load, soc, p)
                             ELSE ChargeBranch(net_load, soc, p)
        new_soc == ClampSoc(b.soc, p)
    IN  [row |-> [Hour |-> h,
                  Load_kW |-> load,
                  PV_Output_kW |-> pv_avail,
                  Wind_Output_kW |-> wind_avail,
                  Hydro_Output_kW |-> hydro_output,
                  Hydro_Active |-> IF hydro_active THEN 1 ELSE 0,
                  BESS_Charge_kW |-> b.charge,
                  BESS_Discharge_kW |-> b.discharge,
                  BESS_SOC_kWh |-> new_soc,
                  Unmet_kW |-> b.unmet,
                  Excess_kW |-> b.excess],
         soc |-> new_soc]

\* The loop over the first n hours, from the SOC soc0: the trace so far and
\* current_soc.
RECURSIVE DispatchLoop(_, _, _, _, _, _)
DispatchLoop(n, soc0, load_profile, pvsyst_profile, wind_profile, p) ==
    IF n = 0 THEN [trace |-> <<>>, soc |-> soc0]
    ELSE Only({Only({[trace |-> Append(before.trace, r.row), soc |-> r.soc] :
                         r \in {DispatchHour(n - 1, before.soc, load_profile[n],
                                              pvsyst_profile[n], wind_profile[n], p)}}) :
                   before \in {DispatchLoop(n - 1, soc0, load_profile, pvsyst_profile,
                                            wind_profile, p)}})

\* calculate_dispatch_with_hydro: the returned trace, one record per hour.
\* Sequences are 1-based: trace[h + 1] is hour h.
calculate_dispatch_with_hydro(load_profile, pvsyst_profile, wind_profile, p) ==
    DispatchLoop(Len(load_profile), InitialSoc(p.bess_capacity),
                 load_profile, pvsyst_profile, wind_profile, p).trace

\* ------------------------------------------------------------------------
\* STEP 4: HOMER-style NPC of a candidate system
\* ------------------------------------------------------------------------

\* The record of a technology with zero capacity.
ZeroComponent ==
    [capital |-> RInt(0), replacement_pv |-> RInt(0), om_pv |-> RInt(0),
     salvage_pv |-> RInt(0), npc |-> RInt(0), annualized |-> RInt(0),
     crf |-> RInt(0)]

\* A faulty total that leaves out the battery.
SumWithoutBess(a, b, c, d) == RAdd(RAdd(a, b), c)

\* A system total: pv + wind + hydro + bess
RSum4(a, b, c, d) == RAdd(RAdd(a, b), RAdd(c, d))

\* A faulty variant that divides without looking at the energy.
LcoeUnguarded(total_npc, total_energy_lifetime) ==
    RDiv(total_npc, RInt(total_energy_lifetime))

\* if total_energy_lifetime > 0: lcoe = total_npc / total_energy_lifetime
\* else: lcoe = 0
Lcoe(total_npc, total_energy_lifetime) ==
    IF total_energy_lifetime > 0
    THEN RDiv(total_npc, RInt(total_energy_lifetime))
    ELSE RInt(0)

calculate_npc_homer_style(pv_capacity, wind_capacity, hydro_capacity, bess_power, bess_capacity, solar_config, wind_config, hydro_config, bess_config, project_config, total_energy_served_annual) ==
    LET project_lifetime == project_config.project_lifetime
        real_discount_rate == calculate_real_discount_rate(
            project_config.discount_rate, project_config.inflation_rate)
        total_energy_lifetime == total_energy_served_annual * project_lifetime
    IN  Only({Only({
            [real_discount_rate |-> real_discount_rate,
             project_lifetime |-> project_lifetime,
             crf |-> calculate_crf(real_discount_rate, project_lifetime),
             pv |-> pv_npc_data,
             wind |-> wind_npc_data,
             hydro |-> hydro_npc_data,
             bess |-> bess_npc_data,
             total_capital |-> RSum4(pv_npc_data.capital, wind_npc_data.capital,
                                     hydro_npc_data.capital, bess_npc_data.capital),
             total_replacement_pv |-> RSum4(pv_npc_data.replacement_pv,
                                            wind_npc_data.replacement_pv,
                                            hydro_npc_data.replacement_pv,
                                            bess_npc_data.replacement_pv),
             total_om_pv |-> RSum4(pv_npc_data.om_pv, wind_npc_data.om_pv,
                                   hydro_npc_data.om_pv, bess_npc_data.om_pv),
             total_salvage_pv |-> RSum4(pv_npc_data.salvage_pv,
                                        wind_npc_data.salvage_pv,
                                        hydro_npc_data.salvage_pv,
                                        bess_npc_data.salvage_pv),
             total_npc |-> total_npc,
             total_annualized |-> RSum4(pv_npc_data.annualized,
                                        wind_npc_data.annualized,
                                        hydro_npc_data.annualized,
                                        bess_npc_data.annualized),
             total_energy_served_annual |-> total_energy_served_annual,
             total_energy_served_lifetime |-> total_energy_lifetime,
             lcoe |-> Lcoe(total_npc, total_energy_lifetime)] :
                total_npc \in {RSum4(pv_npc_data.npc, wind_npc_data.npc,
                                     hydro_npc_data.npc, bess_npc_data.npc)}}) :
            pv_npc_data \in
                {IF pv_capacity > 0
                 THEN calculate_component_npc_homer(
                          RInt(pv_capacity * solar_config.capex_per_kw),
                          RInt(pv_capacity * solar_config.om_per_kw_year),
                          solar_config.lifetime, project_lifetime, real_discount_rate,
                          DefaultReplacementMultiplier)
                 ELSE ZeroComponent},
            wind_npc_data \in
                {IF wind_capacity > 0
                 THEN calculate_component_npc_homer(
                          RInt(wind_capacity * wind_config.capex_per_kw),
                          RInt(wind_capacity * wind_config.om_per_kw_year),
                          wind_config.lifetime, project_lifetime, real_discount_rate,
                          DefaultReplacementMultiplier)
                 ELSE ZeroComponent},
            hydro_npc_data \in
                {IF hydro_capacity > 0
                 THEN calculate_component_npc_homer(
                          RInt(hydro_capacity * hydro_config.capex_per_kw),
                          RInt(hydro_capacity * hydro_config.om_per_kw_year),
                          hydro_config.lifetime, project_lifetime, real_discount_rate,
                          DefaultReplacementMultiplier)
                 ELSE ZeroComponent},
            bess_npc_data \in
                {IF bess_power > 0
                 THEN calculate_component_npc_homer(
                          RInt(bess_power * bess_config.power_capex_per_kw
                               + bess_capacity * bess_config.energy_capex_per_kwh),
                          RInt(bess_power * bess_config.om_per_kw_year),
                          bess_config.lifetime, project_lifetime, real_discount_rate,
                          Rat(4, 5))
                 ELSE ZeroComponent}})

\* ------------------------------------------------------------------------
\* STEP 2: hydro window optimization
\* ------------------------------------------------------------------------

\* unmet_percent = (total_unmet / total_load * 100) if total_load > 0 else 0
UnmetPercent(dispatch_trace) ==
    Only({Only({IF total_load > 0 THEN Rat(total_unmet * 100, total_load)
                ELSE RInt(0) :
                    total_load \in {ColumnSum(trace, "Load_kW")},
                    total_unmet \in {ColumnSum(trace, "Unmet_kW")}}) :
              trace \in {dispatch_trace}})

\* The arguments of one dispatch call: capacities c, configurations, window.
DispatchArgs(c, solar, wind, bess, window_start, window_end) ==
    [pv_capacity |-> c.pv_capacity, wind_capacity |-> c.wind_capacity,
     hydro_capacity |-> c.hydro_capacity, bess_power |-> c.bess_power,
     bess_capacity |-> c.bess_capacity,
     solar_config |-> solar, wind_config |-> wind, bess_config |-> bess,
     hydro_window_start |-> window_start, hydro_window_end |-> window_end]

\* A faulty loop bound: a window may start at any hour of the day.
WindowStartsAllDay(hours_per_day) == DayHours

\* The bound of `range(24 - hours_per_day + 1)`: the number of start hours.
WindowStarts(hours_per_day) == DayHours - hours_per_day + 1

\* The loop `for start_hour in range(24 - hours_per_day + 1)`: window_results
\* for the start hours start_hour, start_hour + 1, ...
RECURSIVE WindowLoop(_, _, _, _, _, _, _, _, _)
WindowLoop(start_hour, load_profile, pvsyst_profile, wind_profile, c, solar, wind, hydro, bess) ==
    IF start_hour >= WindowStarts(hydro.hours_per_day) THEN <<>>
    ELSE LET end_hour == start_hour + hydro.hours_per_day
         IN  <<[start_hour |-> start_hour, end_hour |-> end_hour,
                unmet_percent |->
                    UnmetPercent(calculate_dispatch_with_hydro(
                        load_profile, pvsyst_profile, wind_profile,
                        DispatchArgs(c, solar, wind, bess, start_hour, end_hour)))]>>
             \o WindowLoop(start_hour + 1, load_profile, pvsyst_profile, wind_profile,
                           c, solar, wind, hydro, bess)

\* A faulty choice: the first window tried.
FirstWindow(window_results) == window_results[1]

\* A faulty minimum: the last of the entries with the least key.
RECURSIVE LastMinWindow(_)
LastMinWindow(window_results) ==
    IF Len(window_results) = 1 THEN window_results[1]
    ELSE Only({IF RLess(window_results[1].unmet_percent, rest.unmet_percent)
               THEN window_results[1] ELSE rest :
                   rest \in {LastMinWindow(Tail(window_results))}})

\* min(window_results, key=lambda x: x['unmet_percent']): the first of the
\* entries with the least key.
RECURSIVE MinWindow(_)
MinWindow(window_results) ==
    IF Len(window_results) = 1 THEN window_results[1]
    ELSE Only({IF RLeq(window_results[1].unmet_percent, rest.unmet_percent)
               THEN window_results[1] ELSE rest :
                   rest \in {MinWindow(Tail(window_results))}})

\* find_optimal_hydro_window: window_results and the best window.
find_optimal_hydro_window(load_profile, pvsyst_profile, wind_profile, c, solar, wind, hydro, bess) ==
    Only({[best_window |-> MinWindow(window_results),
           window_results |-> window_results] :
              window_results \in {WindowLoop(0, load_profile, pvsyst_profile,
                                             wind_profile, c, solar, wind, hydro, bess)}})

\* ------------------------------------------------------------------------
\* STEP 5: grid search
\* ------------------------------------------------------------------------

\* The loop `while current <= end` of generate_range_with_endpoint.
RECURSIVE RangeLoop(_, _, _)
RangeLoop(current, end, step) ==
    IF current <= end THEN <<current>> \o RangeLoop(current + step, end, step)
    ELSE <<>>

\* A faulty range: the regular steps only.
RangeWithoutEndpoint(start, end, step) == RangeLoop(start, end, step)

\* The regular steps, and the end value when the last step did not land on it.
generate_range_with_endpoint(start, end, step) ==
    LET values == RangeLoop(start, end, step)
    IN  IF values[Len(values)] # end THEN Append(values, end) ELSE values

pv_range(g) == generate_range_with_endpoint(g.pv_start, g.pv_end, g.pv_step)
wind_range(g) == generate_range_with_endpoint(g.wind_start, g.wind_end, g.wind_step)
hydro_range(g) == generate_range_with_endpoint(g.hydro_start, g.hydro_end, g.hydro_step)
bess_range(g) == generate_range_with_endpoint(g.bess_start, g.bess_end, g.bess_step)

\* total_combinations = len(pv_range) * len(wind_range) * len(hydro_range) * len(bess_range)
total_combinations(g) ==
    Len(pv_range(g)) * Len(wind_range(g)) * Len(hydro_range(g)) * Len(bess_range(g))

\* A faulty enumeration: the battery loop follows the hydro loop's position.
TupleAtSharedIndex(count, g, bess) ==
    LET i == count - 1
        nb == Len(bess_range(g))
        nh == Len(hydro_range(g))
        nw == Len(wind_range(g))
    IN  [pv_capacity |-> pv_range(g)[(i \div (nb * nh * nw)) + 1],
         wind_capacity |-> wind_range(g)[((i \div (nb * nh)) % nw) + 1],
         hydro_capacity |-> hydro_range(g)[((i \div nb) % nh) + 1],
         bess_power |-> bess_range(g)[((i \div nb) % nb) + 1],
         bess_capacity |-> bess_range(g)[((i \div nb) % nb) + 1] * bess.duration_hours]

\* The capacities the four nested loops reach at their count-th pass
\* (count = 1, 2, ...): bess_power runs fastest, pv_cap slowest.
TupleAt(count, g, bess) ==
    LET i == count - 1
        nb == Len(bess_range(g))
        nh == Len(hydro_range(g))
        nw == Len(wind_range(g))
        bess_power == bess_range(g)[(i % nb) + 1]
    IN  [pv_capacity |-> pv_range(g)[(i \div (nb * nh * nw)) + 1],
         wind_capacity |-> wind_range(g)[((i \div (nb * nh)) % nw) + 1],
         hydro_capacity |-> hydro_range(g)[((i \div nb) % nh) + 1],
         bess_power |-> bess_power,
         bess_capacity |-> bess_power * bess.duration_hours]

\* A faulty basis that counts the whole demand as served.
EnergyDemanded(total_load, total_unmet) == total_load

\* total_energy_served = total_load - total_unmet
EnergyServed(total_load, total_unmet) == total_load - total_unmet

\* A faulty test: strictly below the target.
FeasibleStrict(unmet_percent, target_unmet) == RLess(unmet_percent, target_unmet)

\* feasible = unmet_percent <= target_unmet
Feasible(unmet_percent, target_unmet) == RLeq(unmet_percent, target_unmet)

\* results.append({...}): the row of the count-th tuple c.
ResultRow(count, c, hydro_start, hydro_end, trace, total_load, total_unmet, unmet_percent, feasible, total_energy_served, npc_data) ==
    [Iteration |-> count,
     PV_kW |-> c.pv_capacity,
     Wind_kW |-> c.wind_capacity,
     Hydro_kW |-> c.hydro_capacity,
     Hydro_Window_Start |-> hydro_start,
     Hydro_Window_End |-> hydro_end,
     BESS_Power_kW |-> c.bess_power,
     BESS_Capacity_kWh |-> c.bess_capacity,
     BESS_Annual_Discharge_kWh |-> ColumnSum(trace, "BESS_Discharge_kW"),
     Unmet_pct |-> unmet_percent,
     Feasible |-> feasible,
     NPC |-> npc_data.total_npc,
     Capital |-> npc_data.total_capital,
     Replacement |-> npc_data.total_replacement_pv,
     OM |-> npc_data.total_om_pv,
     Salvage |-> npc_data.total_salvage_pv,
     Annualized |-> npc_data.total_annualized,
     LCOE_per_kWh |-> npc_data.lcoe,
     Total_Load_kWh |-> total_load,
     Total_Energy_Served_kWh |-> total_energy_served,
     Unmet_kWh |-> total_unmet,
     Excess_kWh |-> ColumnSum(trace, "Excess_kW")]

\* ------------------------------------------------------------------------
\* STEP 6: find the optimal solution
\* ------------------------------------------------------------------------

\* results_df[results_df['Feasible'] == True]
FeasibleRows(results_df) == SelectSeq(results_df, LAMBDA r : r.Feasible)

\* A faulty minimum: the last of the rows with the least NPC.
RECURSIVE LastMinNpcRow(_)
LastMinNpcRow(rows) ==
    IF Len(rows) = 1 THEN rows[1]
    ELSE Only({IF RLess(rows[1].NPC, rest.NPC) THEN rows[1] ELSE rest :
                   rest \in {LastMinNpcRow(Tail(rows))}})

\* feasible.loc[feasible['NPC_$'].idxmin()]: the first row with the least NPC.
RECURSIVE MinNpcRow(_)
MinNpcRow(rows) ==
    IF Len(rows) = 1 THEN rows[1]
    ELSE Only({IF RLeq(rows[1].NPC, rest.NPC) THEN rows[1] ELSE rest :
                   rest \in {MinNpcRow(Tail(rows))}})

\* A faulty selection: the cheapest row, feasible or not.
CheapestOfAll(results_df) == <<MinNpcRow(results_df)>>

\* A faulty selection: the cheapest row of all when none is feasible.
CheapestOrInfeasible(results_df) ==
    LET feasible == FeasibleRows(results_df)
    IN  IF Len(feasible) = 0 THEN <<MinNpcRow(results_df)>>
        ELSE <<MinNpcRow(feasible)>>

\* find_optimal_solution: <<>> is None, <<r>> the row r.
find_optimal_solution(results_df) ==
    LET feasible == FeasibleRows(results_df)
    IN  IF Len(feasible) = 0 THEN <<>>
        ELSE <<MinNpcRow(feasible)>>

\* ------------------------------------------------------------------------
\* The dispatch loop, hour by hour, for any profiles
\* ------------------------------------------------------------------------

\* Longest simulated horizon of the hour-by-hour specification.
MaxSimHours == 25

LoadValues == {0, 8, 16}
PvsystValues == {0, 2}
WindValues == {0, 1}

SolarConfigs == [baseline_kw : {1, 2}]
WindConfigs == [enabled : BOOLEAN]
SocLimits == {<<0, 100>>, <<25, 100>>, <<75, 100>>, <<0, 25>>}
Efficiencies == {<<100, 100>>, <<50, 100>>, <<100, 50>>}
BessConfigs ==
    {[charge_eff |-> e[1], discharge_eff |-> e[2], min_soc |-> l[1], max_soc |-> l[2],
      duration_hours |-> 2] : e \in Efficiencies, l \in SocLimits}

HydroWindows == {<<0, 1>>, <<1, 24>>}

SimParams ==
    {[pv_capacity |-> pv, wind_capacity |-> w, hydro_capacity |-> hy,
      bess_power |-> bp, bess_capacity |-> bp * bc.duration_hours,
      solar_config |-> sc, wind_config |-> wc, bess_config |-> bc,
      hydro_window_start |-> win[1], hydro_window_end |-> win[2]] :
        pv \in {8}, w \in {4}, hy \in {0, 8}, bp \in {0, 8},
        sc \in SolarConfigs, wc \in WindConfigs, bc \in BessConfigs,
        win \in HydroWindows}

\* Before the first hour no trace entry has been written.
NoRow ==
    [Hour |-> -1, Load_kW |-> 0, PV_Output_kW |-> 0, Wind_Output_kW |-> 0,
     Hydro_Output_kW |-> 0, Hydro_Active |-> 0, BESS_Charge_kW |-> 0,
     BESS_Discharge_kW |-> 0, BESS_SOC_kWh |-> 0, Unmet_kW |-> 0, Excess_kW |-> 0]

MainIdle ==
    /\ cfg = None
    /\ results = <<>>
    /\ windows_tested = <<>>
    /\ dispatch = <<>>
    /\ search_traces = <<>>
    /\ optimal = <<>>
    /\ output_file = <<>>
    /\ session_results = <<>>

\* The call starts: lines 534-558.
DispatchInit ==
    /\ pc = "dispatch"
    /\ sim \in SimParams
    /\ hour = 0
    /\ current_soc = InitialSoc(sim.bess_capacity)
    /\ row = NoRow
    /\ MainIdle
    /\ range_args = None
    /\ generated = <<>>
    /\ cost_args = None
    /\ cost_result = <<>>

\* One pass through the loop body, lines 560-611, for any profile values.
DispatchStep ==
    /\ pc = "dispatch"
    /\ hour < MaxSimHours
    /\ \E load \in LoadValues, pvsyst \in PvsystValues, windp \in WindValues :
          LET r == DispatchHour(hour, current_soc, load, pvsyst, windp, sim)
          IN  /\ row' = r.row
              /\ current_soc' = r.soc
    /\ hour' = hour + 1
    /\ UNCHANGED <<pc, sim, mainVars, rangeVars, costVars>>

SpecDispatch == DispatchInit /\ [][DispatchStep]_vars

\* ------------------------------------------------------------------------
\* main(): read inputs, grid search, selection, report
\* ------------------------------------------------------------------------

\* Length of the hourly profiles of a run.
ProfileHours == 3

LoadProfiles == [1..ProfileHours -> {0, 8}]
PvsystProfiles ==
    {[h \in 1..ProfileHours |-> 1], [h \in 1..ProfileHours |-> IF h = 1 THEN 1 ELSE 0]}

\* read_inputs(): wind_profile is np.zeros(...) unless wind is enabled.
WindProfileOf(enabled) ==
    IF enabled THEN [h \in 1..ProfileHours |-> 1] ELSE [h \in 1..ProfileHours |-> 0]

GridConfigs ==
    {[pv_start |-> 0, pv_end |-> 20, pv_step |-> 8,
      wind_start |-> 0, wind_end |-> 0, wind_step |-> 4,
      hydro_start |-> 0, hydro_end |-> 8, hydro_step |-> 8,
      bess_start |-> 0, bess_end |-> 8, bess_step |-> 8],
     [pv_start |-> 0, pv_end |-> 0, pv_step |-> 8,
      wind_start |-> 0, wind_end |-> 4, wind_step |-> 4,
      hydro_start |-> 0, hydro_end |-> 12, hydro_step |-> 8,
      bess_start |-> 8, bess_end |-> 8, bess_step |-> 8],
     [pv_start |-> 0, pv_end |-> 8, pv_step |-> 8,
      wind_start |-> 4, wind_end |-> 4, wind_step |-> 4,
      hydro_start |-> 8, hydro_end |-> 8, hydro_step |-> 8,
      bess_start |-> 0, bess_end |-> 16, bess_step |-> 8]}

ProjectConfigs ==
    [target_unmet_percent : {RInt(0), RInt(50)},
     discount_rate : {RInt(0), RInt(1)},
     inflation_rate : {RInt(0)},
     project_lifetime : {3}]

RunSolarConfigs ==
    {[baseline_kw |-> 1, capex_per_kw |-> 2, om_per_kw_year |-> 1, lifetime |-> 3]}
\* The front-end writes 'Include Wind?' = YES exactly when the largest wind
\* capacity of the search is positive.
RunWindConfig(g) ==
    [enabled |-> g.wind_end > 0, capex_per_kw |-> 3, om_per_kw_year |-> 1,
     lifetime |-> 2]
RunHydroConfigs ==
    [capex_per_kw : {4}, om_per_kw_year : {1}, lifetime : {3}, hours_per_day : {1, 24}]
RunBessConfigs ==
    [duration_hours : {2}, charge_eff : {50}, discharge_eff : {100},
     min_soc : {25}, max_soc : {100},
     power_capex_per_kw : {1}, energy_capex_per_kwh : {1}, om_per_kw_year : {1},
     lifetime : {1}]

\* What read_inputs() can return.
Inputs ==
    {[config |-> c, grid_config |-> g, solar |-> s, wind |-> RunWindConfig(g),
      hydro |-> hy, bess |-> b, load_profile |-> lp, pvsyst_profile |-> pp,
      wind_profile |-> WindProfileOf(RunWindConfig(g).enabled)] :
        c \in ProjectConfigs, g \in GridConfigs, s \in RunSolarConfigs,
        hy \in RunHydroConfigs, b \in RunBessConfigs,
        lp \in LoadProfiles, pp \in PvsystProfiles}

\* Two input files of one day with a flat load of 100 kW and a one-point
\* search: hydro alone (150 kW for 8 hours a day), and PV alone with a flat
\* profile of 50 kW at a baseline of 50 kW, searched at 100 kW.
FlatDay(kw) == [h \in 1..DayHours |-> kw]

SingleTupleGrid(pv, hydro) ==
    [pv_start |-> pv, pv_end |-> pv, pv_step |-> 50,
     wind_start |-> 0, wind_end |-> 0, wind_step |-> 50,
     hydro_start |-> hydro, hydro_end |-> hydro, hydro_step |-> 50,
     bess_start |-> 0, bess_end |-> 0, bess_step |-> 50]

ScenarioInputs ==
    {[config |-> c, grid_config |-> g,
      solar |-> [baseline_kw |-> 50, capex_per_kw |-> 2, om_per_kw_year |-> 1,
                 lifetime |-> 3],
      wind |-> RunWindConfig(g),
      hydro |-> [capex_per_kw |-> 4, om_per_kw_year |-> 1, lifetime |-> 3,
                 hours_per_day |-> 8],
      bess |-> b, load_profile |-> FlatDay(100), pvsyst_profile |-> FlatDay(50),
      wind_profile |-> FlatDay(0)] :
        c \in ProjectConfigs, g \in {SingleTupleGrid(0, 150), SingleTupleGrid(100, 0)},
        b \in RunBessConfigs}

\* Input files of one day and the first hours of the next with hydro alone,
\* searched at 8 kW, for every hours_per_day of 1..24: a flat load of 8 kW,
\* and a load of 4 kW that rises to 16 kW from 16:00 on.
SimulatedHours == 25

DaysProfile(day) == [h \in 1..SimulatedHours |-> day[((h - 1) % DayHours) + 1]]

EveningPeakDay == [h \in 1..DayHours |-> IF h > 16 THEN 16 ELSE 4]

EveryWindowInputs ==
    {[config |-> c, grid_config |-> g,
      solar |-> [baseline_kw |-> 50, capex_per_kw |-> 2, om_per_kw_year |-> 1,
                 lifetime |-> 3],
      wind |-> RunWindConfig(g),
      hydro |-> [capex_per_kw |-> 4, om_per_kw_year |-> 1, lifetime |-> 3,
                 hours_per_day |-> hpd],
      bess |-> b, load_profile |-> DaysProfile(day),
      pvsyst_profile |-> DaysProfile(FlatDay(0)),
      wind_profile |-> DaysProfile(FlatDay(0))] :
        c \in ProjectConfigs, g \in {SingleTupleGrid(0, 8)}, b \in RunBessConfigs,
        hpd \in 1..DayHours, day \in {FlatDay(8), EveningPeakDay}}

\* read_inputs(): count = int((end - start) / step) + 1
count_options_with_endpoint(start, end, step) == ((end - start) \div step) + 1

\* read_inputs(): total_combinations = pv_options * wind_options *
\* hydro_options * bess_options, printed and compared with Max Combinations.
CountedCombinations(g) ==
    count_options_with_endpoint(g.pv_start, g.pv_end, g.pv_step)
        * count_options_with_endpoint(g.wind_start, g.wind_end, g.wind_step)
        * count_options_with_endpoint(g.hydro_start, g.hydro_end, g.hydro_step)
        * count_options_with_endpoint(g.bess_start, g.bess_end, g.bess_step)

RangeIdle ==
    /\ range_args = None
    /\ generated = <<>>

CostIdle ==
    /\ cost_args = None
    /\ cost_result = <<>>

DispatchIdle ==
    /\ sim = None
    /\ hour = 0
    /\ current_soc = 0
    /\ row = NoRow

\* main() up to the start of the grid-search loops.
Init ==
    /\ pc = "search"
    /\ cfg \in Inputs \cup ScenarioInputs
    /\ results = <<>>
    /\ windows_tested = <<>>
    /\ dispatch = <<>>
    /\ search_traces = <<>>
    /\ optimal = <<>>
    /\ output_file = <<>>
    /\ session_results = <<>>
    /\ DispatchIdle
    /\ RangeIdle
    /\ CostIdle

\* One pass of the innermost loop of grid_search_optimize_hydro: the window
\* search, the final dispatch, the metrics, the costs and the result row of
\* the next tuple.
GridStep ==
    /\ pc = "search"
    /\ Len(results) < total_combinations(cfg.grid_config)
    /\ \E count \in {Len(results) + 1} :
       \E c \in {TupleAt(count, cfg.grid_config, cfg.bess)} :
       \E found \in {find_optimal_hydro_window(
                         cfg.load_profile, cfg.pvsyst_profile, cfg.wind_profile, c,
                         cfg.solar, cfg.wind, cfg.hydro, cfg.bess)} :
       \E hydro_start \in {found.best_window.start_hour},
          hydro_end \in {found.best_window.end_hour} :
       \E trace \in {calculate_dispatch_with_hydro(
                         cfg.load_profile, cfg.pvsyst_profile, cfg.wind_profile,
                         DispatchArgs(c, cfg.solar, cfg.wind, cfg.bess,
                                      hydro_start, hydro_end))} :
       \E total_load \in {ColumnSum(trace, "Load_kW")},
          total_unmet \in {ColumnSum(trace, "Unmet_kW")} :
       \E unmet_percent \in {IF total_load > 0 THEN Rat(total_unmet * 100, total_load)
                             ELSE RInt(0)} :
       \E feasible \in {Feasible(unmet_percent, cfg.config.target_unmet_percent)},
          total_energy_served \in {EnergyServed(total_load, total_unmet)} :
       \E npc_data \in {calculate_npc_homer_style(
                            c.pv_capacity, c.wind_capacity, c.hydro_capacity,
                            c.bess_power, c.bess_capacity, cfg.solar, cfg.wind,
                            cfg.hydro, cfg.bess, cfg.config, total_energy_served)} :
           /\ results' = Append(results,
                                ResultRow(count, c, hydro_start, hydro_end, trace,
                                          total_load, total_unmet, unmet_percent,
                                          feasible, total_energy_served, npc_data))
           /\ windows_tested' = found.window_results
           /\ dispatch' = trace
           /\ search_traces' = Append(search_traces, trace)
    /\ UNCHANGED <<pc, cfg, optimal, output_file, session_results,
                   dispatchVars, rangeVars, costVars>>

\* The loops are over; optimal = find_optimal_solution(results_df).
FindOptimal ==
    /\ pc = "search"
    /\ Len(results) = total_combinations(cfg.grid_config)
    /\ optimal' = find_optimal_solution(results)
    /\ pc' = "report"
    /\ UNCHANGED <<cfg, results, windows_tested, dispatch, search_traces, output_file,
                   session_results, dispatchVars, rangeVars, costVars>>

\* The dispatch re-simulated for the optimal row.
OptimalDispatch(opt, in) ==
    calculate_dispatch_with_hydro(
        in.load_profile, in.pvsyst_profile, in.wind_profile,
        [pv_capacity |-> opt.PV_kW, wind_capacity |-> opt.Wind_kW,
         hydro_capacity |-> opt.Hydro_kW, bess_power |-> opt.BESS_Power_kW,
         bess_capacity |-> opt.BESS_Capacity_kWh,
         solar_config |-> in.solar, wind_config |-> in.wind, bess_config |-> in.bess,
         hydro_window_start |-> opt.Hydro_Window_Start,
         hydro_window_end |-> opt.Hydro_Window_End])

\* The window search repeated for the optimal row (return_all_windows=True).
OptimalWindows(opt, in) ==
    find_optimal_hydro_window(
        in.load_profile, in.pvsyst_profile, in.wind_profile,
        [pv_capacity |-> opt.PV_kW, wind_capacity |-> opt.Wind_kW,
         hydro_capacity |-> opt.Hydro_kW, bess_power |-> opt.BESS_Power_kW,
         bess_capacity |-> opt.BESS_Capacity_kWh],
        in.solar, in.wind, in.hydro, in.bess).window_results

\* main() with an optimum: write_results.  The sorted sheets are kept as the
\* sets of their rows.
WriteResults ==
    /\ pc = "report"
    /\ optimal # <<>>
    /\ \E opt \in {optimal[1]}, optimal_dispatch \in {OptimalDispatch(optimal[1], cfg)},
          windows \in {OptimalWindows(optimal[1], cfg)} :
           /\ dispatch' = optimal_dispatch
           /\ windows_tested' = windows
           /\ output_file' =
                <<[Total_Combinations_Tested |-> Len(results),
                   Feasible_Solutions_Count |-> Len(FeasibleRows(results)),
                   Optimal |-> opt,
                   All_Results |-> results,
                   Feasible_Solutions |-> {results[i] : i \in {j \in 1..Len(results) :
                                                              results[j].Feasible}},
                   Hourly_Dispatch |-> optimal_dispatch,
                   Hydro_Window_Analysis |-> {windows[i] : i \in 1..Len(windows)}]>>
    /\ pc' = "done"
    /\ UNCHANGED <<cfg, results, search_traces, optimal, session_results,
                   dispatchVars, rangeVars, costVars>>

\* The front-end with an optimum: re-simulate and fill st.session_state.results.
\* The stored electrical_metrics come from opt_module.calculate_electrical_metrics,
\* which the optimizer module of the sources does not define; this action is
\* the run with an optimizer module that provides it, and the metrics are left
\* out of the stored record.
StoreSession ==
    /\ pc = "report"
    /\ optimal # <<>>
    /\ LET opt == optimal[1]
       IN  /\ dispatch' = OptimalDispatch(opt, cfg)
           /\ session_results' =
                <<[pv_capacity |-> opt.PV_kW, wind_capacity |-> opt.Wind_kW,
                   hydro_capacity |-> opt.Hydro_kW,
                   hydro_window_start |-> opt.Hydro_Window_Start,
                   hydro_window_end |-> opt.Hydro_Window_End,
                   bess_power |-> opt.BESS_Power_kW,
                   bess_energy |-> opt.BESS_Capacity_kWh,
                   npc |-> opt.NPC, lcoe |-> opt.LCOE_per_kWh,
                   unmet_pct |-> opt.Unmet_pct,
                   results_df |-> results, optimal_row |-> opt]>>
    /\ pc' = "done"
    /\ UNCHANGED <<cfg, results, windows_tested, search_traces, optimal, output_file,
                   dispatchVars, rangeVars, costVars>>

\* The front-end with an optimum and the optimizer module as it stands: the
\* dispatch is re-simulated, the lookup of calculate_electrical_metrics fails,
\* and the except clause reports the error; nothing is stored.
FrontEndError ==
    /\ pc = "report"
    /\ optimal # <<>>
    /\ dispatch' = OptimalDispatch(optimal[1], cfg)
    /\ pc' = "done"
    /\ UNCHANGED <<cfg, results, windows_tested, search_traces, optimal, output_file,
                   session_results, dispatchVars, rangeVars, costVars>>

\* Either caller without an optimum: nothing is written or stored.
NoSolution ==
    /\ pc = "report"
    /\ optimal = <<>>
    /\ pc' = "done"
    /\ UNCHANGED <<mainVars, dispatchVars, rangeVars, costVars>>

Next ==
    GridStep \/ FindOptimal \/ WriteResults \/ StoreSession \/ FrontEndError \/ NoSolution

Spec == Init /\ [][Next]_vars

\* main() on the input files of every hours_per_day.
EveryWindowInit ==
    /\ pc = "search"
    /\ cfg \in EveryWindowInputs
    /\ results = <<>>
    /\ windows_tested = <<>>
    /\ dispatch = <<>>
    /\ search_traces = <<>>
    /\ optimal = <<>>
    /\ output_file = <<>>
    /\ session_results = <<>>
    /\ DispatchIdle
    /\ RangeIdle
    /\ CostIdle

SpecEveryWindow == EveryWindowInit /\ [][Next]_vars

\* ------------------------------------------------------------------------
\* main() on input files that read_inputs() accepts although they are
\* malformed: read_inputs() and grid_search_optimize_hydro() validate nothing
\* ------------------------------------------------------------------------

\* A search range with a negative capacity.
NegativeGridConfigs ==
    {[pv_start |-> -8, pv_end |-> 0, pv_step |-> 8,
      wind_start |-> 0, wind_end |-> 0, wind_step |-> 4,
      hydro_start |-> 0, hydro_end |-> 8, hydro_step |-> 8,
      bess_start |-> 0, bess_end |-> 8, bess_step |-> 8]}

\* A PV sheet with one row more than the load sheet.
LongPvsystProfiles == {[h \in 1..(ProfileHours + 1) |-> 1]}

MalformedInputs ==
    {[config |-> c, grid_config |-> g, solar |-> s, wind |-> RunWindConfig(g),
      hydro |-> hy, bess |-> b, load_profile |-> lp, pvsyst_profile |-> pp,
      wind_profile |-> WindProfileOf(RunWindConfig(g).enabled)] :
        c \in ProjectConfigs, g \in NegativeGridConfigs, s \in RunSolarConfigs,
        hy \in RunHydroConfigs, b \in RunBessConfigs,
        lp \in LoadProfiles, pp \in PvsystProfiles}
    \cup
    {[config |-> c, grid_config |-> g, solar |-> s, wind |-> RunWindConfig(g),
      hydro |-> hy, bess |-> b, load_profile |-> lp, pvsyst_profile |-> pp,
      wind_profile |-> WindProfileOf(RunWindConfig(g).enabled)] :
        c \in ProjectConfigs, g \in GridConfigs, s \in RunSolarConfigs,
        hy \in RunHydroConfigs, b \in RunBessConfigs,
        lp \in LoadProfiles, pp \in LongPvsystProfiles}

\* main() up to the start of the grid-search loops, on a malformed input file.
UnvalidatedInit ==
    /\ pc = "search"
    /\ cfg \in MalformedInputs
    /\ results = <<>>
    /\ windows_tested = <<>>
    /\ dispatch = <<>>
    /\ search_traces = <<>>
    /\ optimal = <<>>
    /\ output_file = <<>>
    /\ session_results = <<>>
    /\ DispatchIdle
    /\ RangeIdle
    /\ CostIdle

SpecUnvalidated == UnvalidatedInit /\ [][Next]_vars

\* ------------------------------------------------------------------------
\* generate_range_with_endpoint on its own, for any start <= end and step > 0
\* ------------------------------------------------------------------------

\* Largest start and end, and largest step, of the ranges tried.
MaxCapacity == 9
MaxStep == 4

RangeArgs ==
    {a \in [start : 0..MaxCapacity, end : 0..MaxCapacity, step : 1..MaxStep] :
        a.start <= a.end}

RangeInit ==
    /\ pc = "range"
    /\ range_args \in RangeArgs
    /\ generated = <<>>
    /\ CostIdle
    /\ MainIdle
    /\ sim = None
    /\ hour = 0
    /\ current_soc = 0
    /\ row = NoRow

GenerateRange ==
    /\ pc = "range"
    /\ generated = <<>>
    /\ generated' = generate_range_with_endpoint(range_args.start, range_args.end,
                                              range_args.step)
    /\ UNCHANGED <<pc, range_args, mainVars, dispatchVars, costVars>>

SpecRange == RangeInit /\ [][GenerateRange]_vars

\* generate_range_with_endpoint statement by statement.  `values` is
\* generated; `current` is start plus one step for every value appended.
RangeLoopInit ==
    /\ pc = "range_loop"
    /\ range_args \in RangeArgs
    /\ generated = <<>>
    /\ CostIdle
    /\ MainIdle
    /\ DispatchIdle

Current == range_args.start + Len(generated) * range_args.step

\* while current <= end: values.append(current); current += step
RangeLoopStep ==
    /\ pc = "range_loop"
    /\ Current <= range_args.end
    /\ generated' = Append(generated, Current)
    /\ UNCHANGED <<pc, range_args, mainVars, dispatchVars, costVars>>

\* A faulty ending that appends the end value in any case.
AlwaysAppendEnd(values, end) == Append(values, end)

\* if values[-1] != end: values.append(end)
EnsureEndpoint(values, end) ==
    IF values[Len(values)] # end THEN Append(values, end) ELSE values

\* The loop is left, the endpoint ensured and the array returned.
RangeReturn ==
    /\ pc = "range_loop"
    /\ Current > range_args.end
    /\ generated' = EnsureEndpoint(generated, range_args.end)
    /\ pc' = "range_done"
    /\ UNCHANGED <<range_args, mainVars, dispatchVars, costVars>>

RangeLoopNext == RangeLoopStep \/ RangeReturn

\* The interpreter keeps executing the function: each statement that can
\* run eventually runs.
SpecRangeLoop ==
    RangeLoopInit /\ [][RangeLoopNext]_vars /\ WF_vars(RangeLoopStep) /\ WF_vars(RangeReturn)

\* ------------------------------------------------------------------------
\* The cost functions on their own, for any arguments
\* ------------------------------------------------------------------------

\* Longest component or project lifetime tried, in years.
MaxLifetime == 4

Lifetimes == 1..MaxLifetime
DiscountRates == {Rat(-1, 2), RInt(0), Rat(1, 2), RInt(1)}
NominalRates == {RInt(0), Rat(1, 2), RInt(1)}
InflationRates == {RInt(-1), Rat(-1, 2), RInt(0), Rat(1, 2)}
Capitals == {RInt(0), RInt(10), RInt(15)}
AnnualOmCosts == {RInt(0), RInt(2)}
Multipliers == {Rat(4, 5), RInt(1)}

RealDiscountRateCalls ==
    [fn : {"calculate_real_discount_rate"}, nominal_rate : NominalRates,
     inflation_rate : InflationRates]
CrfCalls ==
    [fn : {"calculate_crf"}, discount_rate : DiscountRates, lifetime_years : Lifetimes]
PresentValueFactorCalls ==
    [fn : {"calculate_present_value_factor"}, discount_rate : DiscountRates,
     lifetime_years : Lifetimes]
SalvageValueCalls ==
    [fn : {"calculate_salvage_value"}, component_capital : Capitals,
     component_lifetime : Lifetimes, project_lifetime : Lifetimes,
     age_at_start : 0..MaxLifetime]
ReplacementCostPvCalls ==
    [fn : {"calculate_replacement_cost_pv"}, component_capital : Capitals,
     component_lifetime : Lifetimes, project_lifetime : Lifetimes,
     discount_rate : DiscountRates, replacement_cost_multiplier : Multipliers]
ComponentNpcCalls ==
    [fn : {"calculate_component_npc_homer"}, capital_cost : Capitals,
     annual_om_cost : AnnualOmCosts, component_lifetime : Lifetimes,
     project_lifetime : Lifetimes, discount_rate : DiscountRates,
     replacement_cost_multiplier : {DefaultReplacementMultiplier}]

\* Calls of calculate_npc_homer_style as grid_search_optimize_hydro makes
\* them: bess_capacity = bess_power * duration_hours.
SystemNpcCalls ==
    {[fn |-> "calculate_npc_homer_style", pv_capacity |-> pv, wind_capacity |-> w,
      hydro_capacity |-> hy, bess_power |-> bp,
      bess_capacity |-> bp * b.duration_hours,
      solar_config |-> s, wind_config |-> RunWindConfig(g), hydro_config |-> hc,
      bess_config |-> b, project_config |-> c, total_energy_served_annual |-> e] :
        pv \in {0, 8}, w \in {0, 4}, hy \in {0, 8}, bp \in {0, 8},
        s \in RunSolarConfigs, g \in GridConfigs, hc \in RunHydroConfigs,
        b \in RunBessConfigs, c \in ProjectConfigs, e \in {0, 10}}

CostInit ==
    /\ pc = "cost"
    /\ \/ cost_args \in RealDiscountRateCalls
       \/ cost_args \in CrfCalls
       \/ cost_args \in PresentValueFactorCalls
       \/ cost_args \in SalvageValueCalls
       \/ cost_args \in ReplacementCostPvCalls
       \/ cost_args \in ComponentNpcCalls
       \/ cost_args \in SystemNpcCalls
    /\ cost_result = <<>>
    /\ MainIdle
    /\ DispatchIdle
    /\ RangeIdle

\* The call of fn has not returned yet.
Pending(fn) ==
    /\ pc = "cost"
    /\ cost_args.fn = fn
    /\ cost_result = <<>>

CallRealDiscountRate ==
    /\ Pending("calculate_real_discount_rate")
    /\ cost_result' =
         <<calculate_real_discount_rate(cost_args.nominal_rate,
                                            cost_args.inflation_rate)>>
    /\ UNCHANGED <<pc, cost_args, mainVars, dispatchVars, rangeVars>>

CallCrf ==
    /\ Pending("calculate_crf")
    /\ cost_result' =
         <<calculate_crf(cost_args.discount_rate, cost_args.lifetime_years)>>
    /\ UNCHANGED <<pc, cost_args, mainVars, dispatchVars, rangeVars>>

CallPresentValueFactor ==
    /\ Pending("calculate_present_value_factor")
    /\ cost_result' =
         <<calculate_present_value_factor(cost_args.discount_rate,
                                              cost_args.lifetime_years)>>
    /\ UNCHANGED <<pc, cost_args, mainVars, dispatchVars, rangeVars>>

CallSalvageValue ==
    /\ Pending("calculate_salvage_value")
    /\ cost_result' =
         <<calculate_salvage_value(cost_args.component_capital,
                                       cost_args.component_lifetime,
                                       cost_args.project_lifetime, cost_args.age_at_start)>>
    /\ UNCHANGED <<pc, cost_args, mainVars, dispatchVars, rangeVars>>

CallReplacementCostPv ==
    /\ Pending("calculate_replacement_cost_pv")
    /\ cost_result' =
         <<calculate_replacement_cost_pv(
                   cost_args.component_capital, cost_args.component_lifetime,
                   cost_args.project_lifetime, cost_args.discount_rate,
                   cost_args.replacement_cost_multiplier)>>
    /\ UNCHANGED <<pc, cost_args, mainVars, dispatchVars, rangeVars>>

CallComponentNpc ==
    /\ Pending("calculate_component_npc_homer")
    /\ cost_result' =
         <<calculate_component_npc_homer(
                   cost_args.capital_cost, cost_args.annual_om_cost,
                   cost_args.component_lifetime, cost_args.project_lifetime,
                   cost_args.discount_rate, cost_args.replacement_cost_multiplier)>>
    /\ UNCHANGED <<pc, cost_args, mainVars, dispatchVars, rangeVars>>

CallSystemNpc ==
    /\ Pending("calculate_npc_homer_style")
    /\ cost_result' =
         <<calculate_npc_homer_style(
               cost_args.pv_capacity, cost_args.wind_capacity,
               cost_args.hydro_capacity, cost_args.bess_power,
               cost_args.bess_capacity, cost_args.solar_config,
               cost_args.wind_config, cost_args.hydro_config, cost_args.bess_config,
               cost_args.project_config, cost_args.total_energy_served_annual)>>
    /\ UNCHANGED <<pc, cost_args, mainVars, dispatchVars, rangeVars>>

CostNext ==
    \/ CallRealDiscountRate
    \/ CallCrf
    \/ CallPresentValueFactor
    \/ CallSalvageValue
    \/ CallReplacementCostPv
    \/ CallComponentNpc
    \/ CallSystemNpc

SpecCost == CostInit /\ [][CostNext]_vars

\* ------------------------------------------------------------------------
\* Properties of the dispatch loop (checked under SpecDispatch)
\* ------------------------------------------------------------------------

\* C1: in every hour of the trace the recorded SOC lies between
\* min_soc * bess_capacity and max_soc * bess_capacity, hence between 0 and
\* bess_capacity.
C1_SocWithinLimits ==
    hour > 0 =>
        /\ MinSocKwh(sim) <= row.BESS_SOC_kWh
        /\ row.BESS_SOC_kWh <= MaxSocKwh(sim)
        /\ 0 <= row.BESS_SOC_kWh
        /\ row.BESS_SOC_kWh <= sim.bess_capacity

\* An hour in which the battery charged and now stands at its upper limit.
C1_Witness ==
    /\ hour > 0
    /\ sim.bess_capacity > 0
    /\ row.BESS_Charge_kW > 0
    /\ row.BESS_SOC_kWh = MaxSocKwh(sim)

\* C2: in every hour unmet and excess are both non-negative and never both
\* strictly positive.
C2_UnmetExcessExclusive ==
    hour > 0 =>
        /\ row.Unmet_kW >= 0
        /\ row.Excess_kW >= 0
        /\ ~(row.Unmet_kW > 0 /\ row.Excess_kW > 0)

\* A deficit hour in which the battery covered only part of the deficit.
C2_Witness ==
    /\ hour > 0
    /\ row.BESS_Discharge_kW > 0
    /\ row.Unmet_kW > 0
    /\ row.Excess_kW = 0

\* C9: a battery of 0 kW and 0 kWh never charges or discharges; the deficit
\* left after hydro is all unmet and the surplus is all excess.
C9_ZeroBatteryIdle ==
    (hour > 0 /\ sim.bess_power = 0 /\ sim.bess_capacity = 0) =>
        LET supply == row.PV_Output_kW + row.Wind_Output_kW + row.Hydro_Output_kW
        IN  /\ row.BESS_Charge_kW = 0
            /\ row.BESS_Discharge_kW = 0
            /\ row.Unmet_kW = Max2(0, row.Load_kW - supply)
            /\ row.Excess_kW = Max2(0, supply - row.Load_kW)

\* A zero battery in an hour where hydro ran and a deficit remained.
C9_Witness ==
    /\ hour > 0
    /\ sim.bess_power = 0
    /\ sim.bess_capacity = 0
    /\ row.Hydro_Output_kW > 0
    /\ row.Unmet_kW > 0


\* C23: dispatch follows the merit order in every hour.  The battery
\* discharges only when a deficit remains after PV, wind and hydro, so a
\* discharge in an hour where hydro is active with a positive capacity means
\* hydro runs at its capacity; load is unmet only when the discharge has
\* reached min(bess_power, max(0, soc - min_soc_kwh) * discharge_eff), and
\* energy is in excess only when the charge has reached
\* min(bess_power, max(0, max_soc_kwh - soc)), soc being the SOC the hour
\* starts with.
C23_MeritOrder ==
    [][LET soc == current_soc
           r == row'
           deficit == r.Load_kW - r.PV_Output_kW - r.Wind_Output_kW - r.Hydro_Output_kW
       IN  /\ r.BESS_Discharge_kW > 0 => deficit > 0
           /\ (r.BESS_Discharge_kW > 0 /\ r.Hydro_Active = 1 /\ sim.hydro_capacity > 0) =>
                  r.Hydro_Output_kW = sim.hydro_capacity
           /\ r.Unmet_kW > 0 =>
                  r.BESS_Discharge_kW =
                      Min2(sim.bess_power,
                           Frac(Max2(0, soc - MinSocKwh(sim)),
                                sim.bess_config.discharge_eff))
           /\ r.Excess_kW > 0 =>
                  r.BESS_Charge_kW =
                      Min2(sim.bess_power, Max2(0, MaxSocKwh(sim) - soc))]_vars

\* An hour in which hydro ran at capacity, the battery discharged what its
\* energy allowed, below its power, and load was still unmet; the battery
\* had been charged in an hour with excess.
C23_Witness ==
    /\ hour > 1
    /\ row.Hydro_Active = 1
    /\ sim.hydro_capacity > 0
    /\ row.Hydro_Output_kW = sim.hydro_capacity
    /\ row.BESS_Discharge_kW > 0
    /\ row.BESS_Discharge_kW < sim.bess_power
    /\ row.Unmet_kW > 0

\* C24: in every hour h, Hydro_Active is 1 exactly when
\* start_hour <= h mod 24 < end_hour; Hydro_Output_kW is positive only in
\* active hours and 0 <= Hydro_Output_kW <= min(hydro_capacity,
\* max(0, load - pv_output - wind_output)); so in an hour where hydro runs
\* the battery is not charged and nothing is in excess.
C24_HydroOnlyInWindow ==
    hour > 0 =>
        /\ row.Hydro_Active \in {0, 1}
        /\ row.Hydro_Active = 1 <=>
              /\ sim.hydro_window_start <= row.Hour % 24
              /\ row.Hour % 24 < sim.hydro_window_end
        /\ row.Hydro_Output_kW > 0 => row.Hydro_Active = 1
        /\ 0 <= row.Hydro_Output_kW
        /\ row.Hydro_Output_kW <=
              Min2(sim.hydro_capacity,
                   Max2(0, row.Load_kW - row.PV_Output_kW - row.Wind_Output_kW))
        /\ row.Hydro_Output_kW > 0 =>
              /\ row.BESS_Charge_kW = 0
              /\ row.Excess_kW = 0

\* Hydro runs in the first hour of the second day, below its capacity, and
\* covers the whole deficit.
C24_Witness ==
    /\ row.Hour = 24
    /\ row.Hydro_Active = 1
    /\ row.Hydro_Output_kW > 0
    /\ row.Hydro_Output_kW < sim.hydro_capacity
    /\ sim.hydro_window_end = 1

\* C27: every hour of a dispatch trace balances energy,
\* load + bess_charge / charge_eff + excess
\*     = pv_output + wind_output + hydro_output + bess_discharge + unmet,
\* and charge and discharge are never both positive in the same hour.
C27_EnergyBalance ==
    hour > 0 =>
        /\ row.Load_kW + Unfrac(row.BESS_Charge_kW, sim.bess_config.charge_eff)
               + row.Excess_kW
             = row.PV_Output_kW + row.Wind_Output_kW + row.Hydro_Output_kW
                   + row.BESS_Discharge_kW + row.Unmet_kW
        /\ ~(row.BESS_Charge_kW > 0 /\ row.BESS_Discharge_kW > 0)
        /\ row.BESS_Charge_kW >= 0
        /\ row.BESS_Discharge_kW >= 0

\* An hour in which a battery with a charging loss was charged from a
\* surplus that it could not take whole.
C27_Witness ==
    /\ hour > 0
    /\ sim.bess_config.charge_eff = 50
    /\ row.BESS_Charge_kW > 0
    /\ row.Excess_kW > 0
    /\ row.PV_Output_kW > 0
    /\ row.Wind_Output_kW > 0

\* C28: the simulation starts from SOC = 0.5 * bess_capacity, and when
\* min_soc <= 0.5 <= max_soc (efficiencies in (0, 1]) the SOC after each
\* hour's charge or discharge already lies within [min_soc_kwh, max_soc_kwh]:
\* the clamp does not change it, and
\* BESS_SOC[h] = BESS_SOC[h-1] + charge[h] - discharge[h] / discharge_eff
\* in every hour, BESS_SOC[-1] being the initial SOC.
C28_ClampNeverActs ==
    [][/\ hour = 0 => 2 * current_soc = sim.bess_capacity
       /\ (sim.bess_config.min_soc <= 50 /\ 50 <= sim.bess_config.max_soc) =>
             LET unclamped == current_soc + row'.BESS_Charge_kW
                                - Unfrac(row'.BESS_Discharge_kW,
                                         sim.bess_config.discharge_eff)
             IN  /\ MinSocKwh(sim) <= unclamped
                 /\ unclamped <= MaxSocKwh(sim)
                 /\ row'.BESS_SOC_kWh = unclamped
                 /\ current_soc' = unclamped]_vars

\* After a charge, a battery with a discharge loss and a floor of 25 % has
\* been discharged down to its floor.
C28_Witness ==
    /\ hour > 1
    /\ sim.bess_config.min_soc = 25
    /\ sim.bess_config.max_soc = 100
    /\ sim.bess_config.discharge_eff = 50
    /\ row.BESS_Discharge_kW > 0
    /\ row.BESS_SOC_kWh = MinSocKwh(sim)
    /\ sim.bess_capacity > 0

\* ------------------------------------------------------------------------
\* Properties of generate_range_with_endpoint (checked under SpecRange)
\* ------------------------------------------------------------------------

\* C6: the generated range starts at start and ends at end, all its values
\* lie in [start, end], consecutive values differ by step, and only the last
\* difference may be shorter (but is positive).
C6_RangeWithEndpoint ==
    generated # <<>> =>
        LET n == Len(generated)
        IN  /\ generated[1] = range_args.start
            /\ generated[n] = range_args.end
            /\ \A i \in 1..n :
                   range_args.start <= generated[i] /\ generated[i] <= range_args.end
            /\ \A i \in 1..(n - 2) : generated[i + 1] - generated[i] = range_args.step
            /\ n >= 2 => /\ generated[n] - generated[n - 1] > 0
                         /\ generated[n] - generated[n - 1] <= range_args.step

\* The range of start=0, end=5, step=2, whose last difference is shorter.
C6_Witness ==
    /\ range_args = [start |-> 0, end |-> 5, step |-> 2]
    /\ generated = <<0, 2, 4, 5>>

\* C29: for start <= end and step > 0, generate_range_with_endpoint
\* terminates and returns a non-empty list that is strictly increasing, so
\* without duplicates: the end value is appended only when the last
\* regular step did not land on it.
C29_RangeTerminatesIncreasing ==
    (pc = "range_loop") ~>
        /\ pc = "range_done"
        /\ Len(generated) >= 1
        /\ \A i \in 1..(Len(generated) - 1) : generated[i] < generated[i + 1]
        /\ generated = generate_range_with_endpoint(range_args.start, range_args.end,
                                                    range_args.step)

\* The function has returned a range of several values whose last regular
\* step landed on the end, which was not appended again.
C29_Witness ==
    /\ pc = "range_done"
    /\ Len(generated) = 3
    /\ range_args.end = range_args.start + 2 * range_args.step

\* ------------------------------------------------------------------------
\* Properties of a run of main() (checked under Spec)
\* ------------------------------------------------------------------------

SearchOver == pc \in {"report", "done"}

RowsOf(results_df) == {results_df[i] : i \in 1..Len(results_df)}

\* C3: when some result row is feasible, the row find_optimal_solution
\* returned is one of the result rows, is feasible, and its NPC is at most
\* that of every feasible row.
C3_OptimalIsCheapestFeasible ==
    (SearchOver /\ \E r \in RowsOf(results) : r.Feasible) =>
        /\ optimal # <<>>
        /\ optimal[1] \in RowsOf(results)
        /\ optimal[1].Feasible
        /\ \A r \in RowsOf(results) : r.Feasible => RLeq(optimal[1].NPC, r.NPC)

\* A run in which an infeasible row is strictly cheaper than the returned
\* row and another feasible row is strictly dearer.
C3_Witness ==
    /\ SearchOver
    /\ optimal # <<>>
    /\ optimal[1].Feasible
    /\ \E r \in RowsOf(results) : ~r.Feasible /\ RLess(r.NPC, optimal[1].NPC)
    /\ \E r \in RowsOf(results) : r.Feasible /\ RLess(optimal[1].NPC, r.NPC)

\* C4: when no result row is feasible, find_optimal_solution returned None,
\* and neither the output file is written nor a result stored in the session.
C4_NoFeasibleNoOutput ==
    (SearchOver /\ \A r \in RowsOf(results) : ~r.Feasible) =>
        /\ optimal = <<>>
        /\ output_file = <<>>
        /\ session_results = <<>>

\* A finished run whose rows are all infeasible.
C4_Witness ==
    /\ pc = "done"
    /\ Len(results) > 1
    /\ \A r \in RowsOf(results) : ~r.Feasible
    /\ optimal = <<>>


\* The capacities of a result row, as the argument of the window search.
CapacitiesOf(r) ==
    [pv_capacity |-> r.PV_kW, wind_capacity |-> r.Wind_kW,
     hydro_capacity |-> r.Hydro_kW, bess_power |-> r.BESS_Power_kW,
     bess_capacity |-> r.BESS_Capacity_kWh]

\* The unmet percentage of one full simulation of row r's system with the
\* hydro window [start_hour, end_hour).
WindowUnmetPercent(r, start_hour, end_hour) ==
    UnmetPercent(calculate_dispatch_with_hydro(
        cfg.load_profile, cfg.pvsyst_profile, cfg.wind_profile,
        DispatchArgs(CapacitiesOf(r), cfg.solar, cfg.wind, cfg.bess,
                     start_hour, end_hour)))

\* C5: the window search of the latest tuple evaluated the start hours
\* 0 .. 24 - hours_per_day in order, each by a simulation with the window
\* [start, start + hours_per_day), and the window it returned has the least
\* unmet percentage and is the earliest of those that have it.
C5_EarliestBestWindow ==
    (pc \in {"search", "report"} /\ results # <<>>) =>
        LET r == results[Len(results)]
            hours_per_day == cfg.hydro.hours_per_day
            best == r.Hydro_Window_Start + 1
        IN  /\ Len(windows_tested) = DayHours - hours_per_day + 1
            /\ \A i \in 1..Len(windows_tested) :
                   /\ windows_tested[i].start_hour = i - 1
                   /\ windows_tested[i].end_hour = i - 1 + hours_per_day
                   /\ windows_tested[i].unmet_percent =
                          WindowUnmetPercent(r, i - 1, i - 1 + hours_per_day)
            /\ best \in 1..Len(windows_tested)
            /\ r.Hydro_Window_End = r.Hydro_Window_Start + hours_per_day
            /\ \A i \in 1..Len(windows_tested) :
                   RLeq(windows_tested[best].unmet_percent,
                        windows_tested[i].unmet_percent)
            /\ \A i \in 1..(best - 1) :
                   RLess(windows_tested[best].unmet_percent,
                         windows_tested[i].unmet_percent)

\* A search whose returned window is not the first one tried and ties with
\* a later one.
C5_Witness ==
    /\ pc = "search"
    /\ results # <<>>
    /\ results[Len(results)].Hydro_Window_Start > 0
    /\ \E i \in 1..Len(windows_tested) :
           /\ i - 1 > results[Len(results)].Hydro_Window_Start
           /\ windows_tested[i].unmet_percent =
                  windows_tested[results[Len(results)].Hydro_Window_Start + 1].unmet_percent

\* The capacity tuple of a result row.
TupleOf(r) == <<r.PV_kW, r.Wind_kW, r.Hydro_kW, r.BESS_Power_kW>>

ValuesOf(range) == {range[i] : i \in 1..Len(range)}

\* C7: the finished grid search holds one row per element of the Cartesian
\* product of the four generated ranges: as many rows as the product of the
\* range lengths, every tuple of the product present, none twice.
C7_OneRowPerTuple ==
    SearchOver =>
        LET g == cfg.grid_config
            product == ValuesOf(pv_range(g)) \X ValuesOf(wind_range(g))
                           \X ValuesOf(hydro_range(g)) \X ValuesOf(bess_range(g))
        IN  /\ Len(results) = Len(pv_range(g)) * Len(wind_range(g))
                                  * Len(hydro_range(g)) * Len(bess_range(g))
            /\ {TupleOf(r) : r \in RowsOf(results)} = product
            /\ \A i, j \in 1..Len(results) :
                   TupleOf(results[i]) = TupleOf(results[j]) => i = j

\* A finished search over four PV, two hydro and two battery capacities.
C7_Witness ==
    /\ SearchOver
    /\ Len(results) = 16
    /\ Cardinality({r.PV_kW : r \in RowsOf(results)}) = 4
    /\ Cardinality({r.BESS_Power_kW : r \in RowsOf(results)}) = 2

\* C8: a result row is feasible exactly when its unmet percentage, which is
\* total unmet / total load * 100, is at most the target.
C8_FeasibleIffWithinTarget ==
    \A r \in RowsOf(results) :
        /\ r.Total_Load_kWh > 0 => r.Unmet_pct = Rat(r.Unmet_kWh * 100, r.Total_Load_kWh)
        /\ r.Feasible <=> RLeq(r.Unmet_pct, cfg.config.target_unmet_percent)

\* A row whose unmet percentage equals a positive target, and is feasible.
C8_Witness ==
    \E r \in RowsOf(results) :
        /\ r.Unmet_pct = cfg.config.target_unmet_percent
        /\ r.Unmet_kWh > 0
        /\ r.Feasible

C12_ZeroLoadNoDivision ==
    /\ \A i \in 1..Len(results) :
          /\ results[i].Unmet_pct # ZeroDivisionError
          /\ results[i].LCOE_per_kWh # ZeroDivisionError
          /\ results[i].Total_Load_kWh = 0 =>
                /\ results[i].Unmet_pct = RInt(0)
                /\ results[i].LCOE_per_kWh = RInt(0)
          /\ results[i].Total_Energy_Served_kWh = 0 =>
                results[i].LCOE_per_kWh = RInt(0)
    /\ \A w \in 1..Len(windows_tested) :
          /\ windows_tested[w].unmet_percent # ZeroDivisionError
          /\ ColumnSum(dispatch, "Load_kW") = 0 =>
                windows_tested[w].unmet_percent = RInt(0)

\* A run on an all-zero load has searched the windows and evaluated a tuple
\* with a positive cost.
C12_Witness ==
    /\ pc = "search"
    /\ \E i \in 1..Len(results) :
          /\ results[i].Total_Load_kWh = 0
          /\ RLess(RInt(0), results[i].NPC)
    /\ windows_tested # <<>>

\* C18: the system LCOE of a row is total_npc / (energy_served *
\* project_lifetime), where energy_served = total_load - total_unmet of the
\* final dispatch of the tuple; excess energy and generation do not enter.
C18_LcoeOnEnergyServed ==
    \A i \in 1..Len(results) :
        LET energy_served == ColumnSum(search_traces[i], "Load_kW")
                               - ColumnSum(search_traces[i], "Unmet_kW")
            lifetime_energy == energy_served * cfg.config.project_lifetime
        IN  /\ results[i].Total_Energy_Served_kWh = energy_served
            /\ lifetime_energy > 0 =>
                  RMul(results[i].LCOE_per_kWh, RInt(lifetime_energy)) = results[i].NPC
            /\ lifetime_energy = 0 => results[i].LCOE_per_kWh = RInt(0)

\* A row of a system that both curtails energy and leaves load unmet, with
\* a positive LCOE.
C18_Witness ==
    \E i \in 1..Len(results) :
        /\ results[i].Excess_kWh > 0
        /\ results[i].Unmet_kWh > 0
        /\ results[i].Total_Energy_Served_kWh > 0
        /\ RLess(RInt(0), results[i].LCOE_per_kWh)

\* The run is the hydro-only scenario: a flat load of 100 kW over 24 hours,
\* no PV, wind or battery, 150 kW of hydro for 8 hours a day.
HydroOnlyDay ==
    /\ cfg.load_profile = [h \in 1..24 |-> 100]
    /\ cfg.grid_config.pv_end = 0
    /\ cfg.grid_config.wind_end = 0
    /\ cfg.grid_config.bess_end = 0
    /\ cfg.grid_config.hydro_start = 150
    /\ cfg.grid_config.hydro_end = 150
    /\ cfg.hydro.hours_per_day = 8

\* The total unmet energy of the dispatch of tuple c with the hydro window
\* [start_hour, start_hour + hours_per_day).
WindowUnmet(c, start_hour) ==
    ColumnSum(calculate_dispatch_with_hydro(
                  cfg.load_profile, cfg.pvsyst_profile, cfg.wind_profile,
                  DispatchArgs(c, cfg.solar, cfg.wind, cfg.bess, start_hour,
                               start_hour + cfg.hydro.hours_per_day)),
              "Unmet_kW")

\* C19: for a flat 100 kW load over 24 hours with PV 0, wind 0, battery power
\* 0 and 150 kW of hydro with hours_per_day = 8, every candidate window
\* leaves 1600 kWh of 2400 kWh unmet (66.67 %, i.e. 200/3 %): all windows tie.
C19_HydroOnlyAllWindowsTie ==
    HydroOnlyDay /\ results # <<>> =>
        /\ Len(windows_tested) = 24 - 8 + 1
        /\ \A w \in 1..Len(windows_tested) :
              /\ windows_tested[w].unmet_percent = Rat(200, 3)
              /\ windows_tested[w].end_hour = windows_tested[w].start_hour + 8
              /\ WindowUnmet(CapacitiesOf(results[1]), windows_tested[w].start_hour) = 1600
        /\ results[1].Total_Load_kWh = 2400
        /\ results[1].Unmet_kWh = 1600
        /\ results[1].Unmet_pct = Rat(200, 3)

\* The hydro-only tuple has been evaluated, over all start hours 0..16.
C19_Witness ==
    /\ HydroOnlyDay
    /\ Len(results) = 1
    /\ {windows_tested[w].start_hour : w \in 1..Len(windows_tested)} = 0..16
    /\ results[1].Hydro_kW = 150

\* The run is the PV-only scenario: a flat load of 100 kW, a one-point
\* search without hydro, wind and battery, and a PV capacity whose scaled
\* profile is 100 kW in every hour.
PvOnlyDay ==
    /\ \A h \in 1..Len(cfg.load_profile) :
          /\ cfg.load_profile[h] = 100
          /\ cfg.pvsyst_profile[h] * cfg.grid_config.pv_start
               = 100 * cfg.solar.baseline_kw
    /\ cfg.grid_config.pv_end = cfg.grid_config.pv_start
    /\ cfg.grid_config.wind_end = 0
    /\ cfg.grid_config.hydro_end = 0
    /\ cfg.grid_config.bess_end = 0

\* C20: for a flat 100 kW load with a PV output of exactly 100 kW in every
\* hour and hydro, wind and battery all 0, every hour has unmet = 0 and
\* excess = 0, the unmet percentage is 0, and the row is feasible for every
\* target >= 0.
C20_PvOnlyExactlyServed ==
    PvOnlyDay /\ results # <<>> =>
        /\ \A h \in 1..Len(search_traces[1]) :
              /\ search_traces[1][h].PV_Output_kW = 100
              /\ search_traces[1][h].Unmet_kW = 0
              /\ search_traces[1][h].Excess_kW = 0
        /\ results[1].Unmet_pct = RInt(0)
        /\ results[1].Unmet_kWh = 0
        /\ results[1].Excess_kWh = 0
        /\ results[1].Feasible
        /\ \A target \in {RInt(0), Rat(1, 2), RInt(100)} :
              Feasible(results[1].Unmet_pct, target)

\* The PV-only tuple has been evaluated over the whole day against a target
\* of 0 % unmet.
C20_Witness ==
    /\ PvOnlyDay
    /\ Len(results) = 1
    /\ Len(search_traces[1]) = 24
    /\ results[1].PV_kW = 100
    /\ cfg.config.target_unmet_percent = RInt(0)

\* C25: the number of combinations computed before the search, the product
\* of count_options_with_endpoint over the four dimensions, equals the
\* number of capacity tuples the grid search evaluates, for every range with
\* start <= end and step > 0, also when the span is not a multiple of the
\* step.
C25_CountedEqualsEvaluated ==
    SearchOver => CountedCombinations(cfg.grid_config) = Len(results)

\* C26: the Unmet_% recorded in a result row, which comes from the further
\* dispatch simulation run with the chosen window, equals the least unmet
\* percentage over all candidate hydro windows of the tuple: it is the best
\* unmet percentage of find_optimal_hydro_window.
C26_RowUnmetIsBestWindows ==
    (pc = "search" /\ results # <<>>) =>
        LET r == results[Len(results)]
        IN  /\ windows_tested # <<>>
            /\ r.Unmet_pct = windows_tested[r.Hydro_Window_Start + 1].unmet_percent
            /\ \A w \in 1..Len(windows_tested) :
                  RLeq(r.Unmet_pct, windows_tested[w].unmet_percent)
            /\ r.Unmet_pct = UnmetPercent(dispatch)

\* The row of a tuple whose best window is not the first one tried and
\* still leaves load unmet, less than some other window.
C26_Witness ==
    /\ pc = "search"
    /\ results # <<>>
    /\ results[Len(results)].Hydro_Window_Start > 0
    /\ RLess(RInt(0), results[Len(results)].Unmet_pct)
    /\ \E w \in 1..Len(windows_tested) :
          RLess(results[Len(results)].Unmet_pct, windows_tested[w].unmet_percent)

\* ------------------------------------------------------------------------
\* Properties of main() for every hours_per_day (SpecEveryWindow)
\* ------------------------------------------------------------------------

\* The hours of day `day` of the final dispatch in which hydro is active.
ActiveHoursOfDay(day) ==
    {h \in 0..(DayHours - 1) : dispatch[day * DayHours + h + 1].Hydro_Active = 1}

\* C30: for every hours_per_day in 1..24, every window tried and so the
\* window returned by find_optimal_hydro_window has 0 <= start and
\* end = start + hours_per_day <= 24: it does not wrap past midnight, and in
\* each full day of the simulation hydro is active in exactly hours_per_day
\* hours, the hours start..end-1.
C30_WindowWithinDay ==
    (pc = "search" /\ results # <<>> /\ cfg.hydro.hours_per_day \in 1..24) =>
        LET r == results[Len(results)]
        IN  /\ \A w \in 1..Len(windows_tested) :
                  /\ 0 <= windows_tested[w].start_hour
                  /\ windows_tested[w].end_hour
                         = windows_tested[w].start_hour + cfg.hydro.hours_per_day
                  /\ windows_tested[w].end_hour <= 24
            /\ 0 <= r.Hydro_Window_Start
            /\ r.Hydro_Window_End = r.Hydro_Window_Start + cfg.hydro.hours_per_day
            /\ r.Hydro_Window_End <= 24
            /\ \A day \in 0..((Len(dispatch) \div DayHours) - 1) :
                  /\ Cardinality(ActiveHoursOfDay(day)) = cfg.hydro.hours_per_day
                  /\ ActiveHoursOfDay(day) = r.Hydro_Window_Start..(r.Hydro_Window_End - 1)

\* A tuple has been simulated over a full day and more with a window of
\* several hours that was moved to the evening and ends at midnight.
C30_Witness ==
    /\ pc = "search"
    /\ results # <<>>
    /\ Len(dispatch) > DayHours
    /\ cfg.hydro.hours_per_day \in 2..23
    /\ results[Len(results)].Hydro_Window_Start > 0
    /\ results[Len(results)].Hydro_Window_End = 24
    /\ ActiveHoursOfDay(0) = results[Len(results)].Hydro_Window_Start..23

\* ------------------------------------------------------------------------
\* Properties of main() on malformed input (SpecUnvalidated)
\* ------------------------------------------------------------------------

MalformedRange(start, end, step) == start > end \/ step <= 0 \/ start < 0

Malformed(in) ==
    \/ MalformedRange(in.grid_config.pv_start, in.grid_config.pv_end,
                      in.grid_config.pv_step)
    \/ MalformedRange(in.grid_config.wind_start, in.grid_config.wind_end,
                      in.grid_config.wind_step)
    \/ MalformedRange(in.grid_config.hydro_start, in.grid_config.hydro_end,
                      in.grid_config.hydro_step)
    \/ MalformedRange(in.grid_config.bess_start, in.grid_config.bess_end,
                      in.grid_config.bess_step)
    \/ Len(in.load_profile) = 0
    \/ Len(in.pvsyst_profile) # Len(in.load_profile)
    \/ Len(in.wind_profile) # Len(in.load_profile)

\* C11: a malformed configuration (a negative capacity, profiles of
\* different lengths, a zero-length profile, a range with start > end or
\* step <= 0) is rejected before the grid search evaluates any capacity
\* tuple: no result row is ever produced from it, no optimum is selected and
\* no result file is written.
C11_MalformedRejected ==
    Malformed(cfg) => /\ results = <<>>
                      /\ optimal = <<>>
                      /\ output_file = <<>>

\* ------------------------------------------------------------------------
\* Properties of the cost functions (SpecCost)
\* ------------------------------------------------------------------------

\* The call fn has returned.
Returned(fn) ==
    /\ pc = "cost"
    /\ cost_args.fn = fn
    /\ cost_result # <<>>

\* No field of a component record is a raised ZeroDivisionError.
NoDivisionError(component) ==
    \A f \in DOMAIN component : component[f] # ZeroDivisionError

\* C13: at a discount rate of exactly 0, calculate_crf(0, n) returns 1/n,
\* calculate_present_value_factor(0, n) returns n, and
\* calculate_component_npc_homer raises no division error, whatever the
\* project lifetime.
C13_ZeroRateLimit ==
    /\ Returned("calculate_crf") /\ cost_args.discount_rate = RInt(0) =>
          cost_result[1] = Rat(1, cost_args.lifetime_years)
    /\ Returned("calculate_present_value_factor") /\ cost_args.discount_rate = RInt(0) =>
          cost_result[1] = RInt(cost_args.lifetime_years)
    /\ Returned("calculate_component_npc_homer") /\ cost_args.discount_rate = RInt(0) =>
          /\ NoDivisionError(cost_result[1])
          /\ cost_result[1].crf = Rat(1, cost_args.project_lifetime)

\* A component with a capital cost, replaced during the project, has been
\* priced at rate 0.
C13_Witness ==
    /\ Returned("calculate_component_npc_homer")
    /\ cost_args.discount_rate = RInt(0)
    /\ cost_args.capital_cost # RInt(0)
    /\ cost_args.component_lifetime < cost_args.project_lifetime
    /\ cost_args.project_lifetime = MaxLifetime

\* The call returned (nominal - inflation) / (1 + inflation): a value, and
\* the one that multiplied by (1 + inflation) gives nominal - inflation.
ReturnedRealRate ==
    /\ cost_result[1] # ZeroDivisionError
    /\ RMul(cost_result[1], RAdd(RInt(1), cost_args.inflation_rate))
         = RSub(cost_args.nominal_rate, cost_args.inflation_rate)

\* C14 as stated: calculate_real_discount_rate(nominal, inflation) returns
\* (nominal - inflation) / (1 + inflation) without failing for every
\* inflation >= -1.
C14_RealRateFromMinusOne ==
    Returned("calculate_real_discount_rate")
        /\ RLeq(RInt(-1), cost_args.inflation_rate) => ReturnedRealRate

\* C14, amended: calculate_real_discount_rate(nominal, inflation) returns
\* (nominal - inflation) / (1 + inflation) without failing for every
\* inflation > -1; at an inflation of exactly -1 the division by
\* (1 + inflation) = 0 raises ZeroDivisionError.
C14_RealRateAboveMinusOne ==
    /\ Returned("calculate_real_discount_rate")
           /\ RLess(RInt(-1), cost_args.inflation_rate) => ReturnedRealRate
    /\ Returned("calculate_real_discount_rate")
           /\ cost_args.inflation_rate = RInt(-1) => cost_result[1] = ZeroDivisionError

\* The real rate of a positive nominal rate under deflation has been computed.
C14_Witness ==
    /\ Returned("calculate_real_discount_rate")
    /\ cost_args.inflation_rate = Rat(-1, 2)
    /\ cost_args.nominal_rate = Rat(1, 2)
    /\ cost_result[1] = RInt(2)

\* The years of the project in which a component of the given lifetime is
\* replaced: the positive multiples of its lifetime before the last year.
ReplacementYears(component_lifetime, project_lifetime) ==
    {y \in 1..(project_lifetime - 1) : y % component_lifetime = 0}

\* The sum over the years ys of cost / (1 + rate)^year.
RECURSIVE DiscountedSum(_, _, _)
DiscountedSum(ys, cost, rate) ==
    IF ys = {} THEN RInt(0)
    ELSE LET y == CHOOSE x \in ys : TRUE
         IN  RAdd(RDiv(cost, RPow(RAdd(RInt(1), rate), y)),
                  DiscountedSum(ys \ {y}, cost, rate))

\* C15: calculate_replacement_cost_pv returns exactly 0 when
\* component_lifetime >= project_lifetime; otherwise it is the sum of one
\* discounted replacement, capital * multiplier / (1 + rate)^year, for each
\* year that is a positive multiple of component_lifetime and strictly less
\* than project_lifetime: nothing is charged in the last year of the project.
C15_ReplacementSchedule ==
    Returned("calculate_replacement_cost_pv") =>
        /\ cost_args.component_lifetime >= cost_args.project_lifetime =>
              cost_result[1] = RInt(0)
        /\ cost_args.component_lifetime < cost_args.project_lifetime =>
              cost_result[1] =
                  DiscountedSum(ReplacementYears(cost_args.component_lifetime,
                                                 cost_args.project_lifetime),
                                RMul(cost_args.component_capital,
                                     cost_args.replacement_cost_multiplier),
                                cost_args.discount_rate)

\* A project whose lifetime is an exact multiple of the component's, with a
\* replacement before the last year, at a positive rate.
C15_Witness ==
    /\ Returned("calculate_replacement_cost_pv")
    /\ cost_args.component_lifetime = 2
    /\ cost_args.project_lifetime = 4
    /\ cost_args.component_capital = RInt(10)
    /\ cost_args.discount_rate = RInt(1)
    /\ cost_args.replacement_cost_multiplier = Rat(4, 5)
    /\ cost_result[1] = RInt(2)

\* The call returned the salvage value of the statement: 0 for a component
\* at the end of a life, the share of the remaining life otherwise.
ReturnedSalvage ==
    LET age_at_end == (cost_args.age_at_start + cost_args.project_lifetime)
                          % cost_args.component_lifetime
    IN  /\ age_at_end = 0 => cost_result[1] = RInt(0)
        /\ age_at_end # 0 =>
              RMul(cost_result[1], RInt(cost_args.component_lifetime))
                  = RMul(cost_args.component_capital,
                         RInt(cost_args.component_lifetime - age_at_end))

\* C16 as stated: calculate_salvage_value returns 0 when
\* (age_at_start + project_lifetime) mod component_lifetime is 0 and
\* otherwise capital * (component_lifetime - age_at_end) / component_lifetime;
\* for capital >= 0 the result is at least 0 and strictly less than capital.
C16_SalvageBelowCapital ==
    Returned("calculate_salvage_value") =>
        /\ ReturnedSalvage
        /\ RLeq(RInt(0), cost_args.component_capital) =>
              /\ RLeq(RInt(0), cost_result[1])
              /\ RLess(cost_result[1], cost_args.component_capital)

\* C16, amended: calculate_salvage_value returns 0 when
\* (age_at_start + project_lifetime) mod component_lifetime is 0 and
\* otherwise capital * (component_lifetime - age_at_end) / component_lifetime;
\* for capital >= 0 the result is at least 0 and at most capital, and
\* strictly less than capital when capital > 0 (for capital = 0 it is 0).
C16_SalvageWithinCapital ==
    Returned("calculate_salvage_value") =>
        /\ ReturnedSalvage
        /\ RLeq(RInt(0), cost_args.component_capital) =>
              /\ RLeq(RInt(0), cost_result[1])
              /\ RLeq(cost_result[1], cost_args.component_capital)
        /\ RLess(RInt(0), cost_args.component_capital) =>
              RLess(cost_result[1], cost_args.component_capital)
        /\ cost_args.component_capital = RInt(0) => cost_result[1] = RInt(0)

\* A component one year into its second life at the end of the project
\* keeps two thirds of its capital.
C16_Witness ==
    /\ Returned("calculate_salvage_value")
    /\ cost_args.component_capital = RInt(15)
    /\ cost_args.component_lifetime = 3
    /\ cost_args.project_lifetime = 4
    /\ cost_args.age_at_start = 0
    /\ cost_result[1] = RInt(10)

\* The fields of a component record that are summed into system totals.
CostFields == {"capital", "replacement_pv", "om_pv", "salvage_pv", "npc", "annualized"}

\* The capacity that decides whether a technology is priced.
CapacityOf(tech) ==
    CASE tech = "pv" -> cost_args.pv_capacity
      [] tech = "wind" -> cost_args.wind_capacity
      [] tech = "hydro" -> cost_args.hydro_capacity
      [] tech = "bess" -> cost_args.bess_power

\* The sum of field f of the returned records of the technologies techs.
RECURSIVE FieldSum(_, _)
FieldSum(techs, f) ==
    IF techs = {} THEN RInt(0)
    ELSE LET t == CHOOSE x \in techs : TRUE
         IN  RAdd(cost_result[1][t][f], FieldSum(techs \ {t}, f))

Installed == {t \in {"pv", "wind", "hydro", "bess"} : CapacityOf(t) > 0}

\* C17: a technology with zero capital and zero O&M has a component NPC of
\* exactly 0 for every lifetime and rate; in calculate_npc_homer_style a
\* technology with zero capacity contributes 0 to every system total
\* (capital, replacement, O&M, salvage, NPC, annualized), and each system
\* total is the sum of the per-technology values.
C17_ZeroCapacityContributesNothing ==
    /\ Returned("calculate_component_npc_homer")
           /\ cost_args.capital_cost = RInt(0)
           /\ cost_args.annual_om_cost = RInt(0) =>
          \A f \in CostFields : cost_result[1][f] = RInt(0)
    /\ Returned("calculate_npc_homer_style") =>
          /\ \A t \in {"pv", "wind", "hydro", "bess"} \ Installed :
                \A f \in CostFields : cost_result[1][t][f] = RInt(0)
          /\ cost_result[1].total_capital = FieldSum(Installed, "capital")
          /\ cost_result[1].total_replacement_pv = FieldSum(Installed, "replacement_pv")
          /\ cost_result[1].total_om_pv = FieldSum(Installed, "om_pv")
          /\ cost_result[1].total_salvage_pv = FieldSum(Installed, "salvage_pv")
          /\ cost_result[1].total_npc = FieldSum(Installed, "npc")
          /\ cost_result[1].total_annualized = FieldSum(Installed, "annualized")

\* A system of PV and battery without wind and hydro has been priced, at a
\* positive cost.
C17_Witness ==
    /\ Returned("calculate_npc_homer_style")
    /\ Installed = {"pv", "bess"}
    /\ RLess(RInt(0), cost_result[1].total_npc)
    /\ cost_result[1].total_npc = RAdd(cost_result[1].pv.npc, cost_result[1].bess.npc)

\* ------------------------------------------------------------------------
\* The grid search with its loop body run on the tuples in any order, as a
\* pool of workers fed from the Cartesian product would run it: the body is
\* that of grid_search_optimize_hydro, count is the shared counter
\* ------------------------------------------------------------------------

AnyOrderGridConfigs ==
    {[pv_start |-> 0, pv_end |-> 8, pv_step |-> 8,
      wind_start |-> 0, wind_end |-> 0, wind_step |-> 4,
      hydro_start |-> 0, hydro_end |-> 8, hydro_step |-> 8,
      bess_start |-> 0, bess_end |-> 0, bess_step |-> 8],
     [pv_start |-> 0, pv_end |-> 8, pv_step |-> 8,
      wind_start |-> 0, wind_end |-> 0, wind_step |-> 4,
      hydro_start |-> 8, hydro_end |-> 8, hydro_step |-> 8,
      bess_start |-> 0, bess_end |-> 8, bess_step |-> 8]}

AnyOrderLoadProfiles ==
    {[h \in 1..ProfileHours |-> 8], [h \in 1..ProfileHours |-> IF h = 1 THEN 0 ELSE 8]}

\* Hydro priced like PV (2 per kW) or dearer (4 per kW).
AnyOrderHydroConfigs ==
    [capex_per_kw : {2, 4}, om_per_kw_year : {1}, lifetime : {3}, hours_per_day : {1, 24}]

AnyOrderProjectConfigs ==
    [target_unmet_percent : {RInt(0), RInt(50)},
     discount_rate : {RInt(0)},
     inflation_rate : {RInt(0)},
     project_lifetime : {3}]

AnyOrderInputs ==
    {[config |-> c, grid_config |-> g, solar |-> s, wind |-> RunWindConfig(g),
      hydro |-> hy, bess |-> b, load_profile |-> lp, pvsyst_profile |-> pp,
      wind_profile |-> WindProfileOf(RunWindConfig(g).enabled)] :
        c \in AnyOrderProjectConfigs, g \in AnyOrderGridConfigs, s \in RunSolarConfigs,
        hy \in AnyOrderHydroConfigs, b \in RunBessConfigs,
        lp \in AnyOrderLoadProfiles, pp \in PvsystProfiles}

AnyOrderInit ==
    /\ pc = "search"
    /\ cfg \in AnyOrderInputs
    /\ results = <<>>
    /\ windows_tested = <<>>
    /\ dispatch = <<>>
    /\ search_traces = <<>>
    /\ optimal = <<>>
    /\ output_file = <<>>
    /\ session_results = <<>>
    /\ DispatchIdle
    /\ RangeIdle
    /\ CostIdle

\* The tuples that have a result row.
Evaluated == {CapacitiesOf(results[i]) : i \in 1..Len(results)}

\* One pass of the loop body on any tuple that has no row yet.
GridStepAnyOrder ==
    /\ pc = "search"
    /\ Len(results) < total_combinations(cfg.grid_config)
    /\ \E count \in {Len(results) + 1} :
       \E c \in {TupleAt(k, cfg.grid_config, cfg.bess) :
                     k \in 1..total_combinations(cfg.grid_config)} \ Evaluated :
       \E found \in {find_optimal_hydro_window(
                         cfg.load_profile, cfg.pvsyst_profile, cfg.wind_profile, c,
                         cfg.solar, cfg.wind, cfg.hydro, cfg.bess)} :
       \E hydro_start \in {found.best_window.start_hour},
          hydro_end \in {found.best_window.end_hour} :
       \E trace \in {calculate_dispatch_with_hydro(
                         cfg.load_profile, cfg.pvsyst_profile, cfg.wind_profile,
                         DispatchArgs(c, cfg.solar, cfg.wind, cfg.bess,
                                      hydro_start, hydro_end))} :
       \E total_load \in {ColumnSum(trace, "Load_kW")},
          total_unmet \in {ColumnSum(trace, "Unmet_kW")} :
       \E unmet_percent \in {IF total_load > 0 THEN Rat(total_unmet * 100, total_load)
                             ELSE RInt(0)} :
       \E feasible \in {Feasible(unmet_percent, cfg.config.target_unmet_percent)},
          total_energy_served \in {EnergyServed(total_load, total_unmet)} :
       \E npc_data \in {calculate_npc_homer_style(
                            c.pv_capacity, c.wind_capacity, c.hydro_capacity,
                            c.bess_power, c.bess_capacity, cfg.solar, cfg.wind,
                            cfg.hydro, cfg.bess, cfg.config, total_energy_served)} :
           /\ results' = Append(results,
                                ResultRow(count, c, hydro_start, hydro_end, trace,
                                          total_load, total_unmet, unmet_percent,
                                          feasible, total_energy_served, npc_data))
           /\ windows_tested' = found.window_results
           /\ dispatch' = trace
           /\ search_traces' = Append(search_traces, trace)
    /\ UNCHANGED <<pc, cfg, optimal, output_file, session_results,
                   dispatchVars, rangeVars, costVars>>

AnyOrderNext ==
    \/ GridStepAnyOrder
    \/ FindOptimal
    \/ WriteResults
    \/ StoreSession
    \/ FrontEndError
    \/ NoSolution

SpecAnyOrder == AnyOrderInit /\ [][AnyOrderNext]_vars

\* ------------------------------------------------------------------------
\* Properties of the grid search in any order (SpecAnyOrder)
\* ------------------------------------------------------------------------

\* The position of tuple c in the source's nested loops.
SourceIndex(c) ==
    CHOOSE k \in 1..total_combinations(cfg.grid_config) :
        TupleAt(k, cfg.grid_config, cfg.bess) = c

\* The row that the loop body computes for tuple c from the inputs alone,
\* numbered count.
RowFromInputs(count, c) ==
    Only({Only({Only({
        ResultRow(count, c, found.best_window.start_hour, found.best_window.end_hour,
                  trace, total_load, total_unmet,
                  IF total_load > 0 THEN Rat(total_unmet * 100, total_load)
                                    ELSE RInt(0),
                  Feasible(IF total_load > 0 THEN Rat(total_unmet * 100, total_load)
                                             ELSE RInt(0),
                           cfg.config.target_unmet_percent),
                  EnergyServed(total_load, total_unmet),
                  calculate_npc_homer_style(
                      c.pv_capacity, c.wind_capacity, c.hydro_capacity,
                      c.bess_power, c.bess_capacity, cfg.solar, cfg.wind,
                      cfg.hydro, cfg.bess, cfg.config,
                      EnergyServed(total_load, total_unmet))) :
            total_load \in {ColumnSum(trace, "Load_kW")},
            total_unmet \in {ColumnSum(trace, "Unmet_kW")}}) :
        trace \in {calculate_dispatch_with_hydro(
                       cfg.load_profile, cfg.pvsyst_profile, cfg.wind_profile,
                       DispatchArgs(c, cfg.solar, cfg.wind, cfg.bess,
                                    found.best_window.start_hour,
                                    found.best_window.end_hour))}}) :
        found \in {find_optimal_hydro_window(
                       cfg.load_profile, cfg.pvsyst_profile, cfg.wind_profile, c,
                       cfg.solar, cfg.wind, cfg.hydro, cfg.bess)}})

SourceRows ==
    [k \in 1..Len(results) |->
        results[CHOOSE i \in 1..Len(results) :
                    SourceIndex(CapacitiesOf(results[i])) = k]]

\* The feasible rows of the least NPC.
CheapestFeasible ==
    {r \in RowsOf(results) :
        /\ r.Feasible
        /\ \A q \in RowsOf(results) : q.Feasible => RLeq(r.NPC, q.NPC)}

\* C22 as stated: the solution find_optimal_solution returns does not depend
\* on the order of the rows in the result collection, also when several
\* feasible rows have the same minimal NPC: it is the system returned for
\* the rows in the source's order.
C22_SelectionIgnoresOrder ==
    SearchOver =>
        LET reference == find_optimal_solution(SourceRows)
        IN  /\ (optimal = <<>>) <=> (reference = <<>>)
            /\ optimal # <<>> =>
                  CapacitiesOf(optimal[1]) = CapacitiesOf(reference[1])

\* C22, amended: whether find_optimal_solution returns a solution, and the
\* NPC of the solution, do not depend on the order of the rows; the system
\* returned does not depend on it when a single feasible row has the minimal
\* NPC; when several feasible rows have the same minimal NPC the one that
\* comes first in the result collection is returned.
C22_SelectionIgnoresOrderUpToTies ==
    SearchOver =>
        LET reference == find_optimal_solution(SourceRows)
        IN  /\ (optimal = <<>>) <=> (reference = <<>>)
            /\ optimal # <<>> =>
                  /\ optimal[1].NPC = reference[1].NPC
                  /\ Cardinality(CheapestFeasible) = 1 =>
                        CapacitiesOf(optimal[1]) = CapacitiesOf(reference[1])
                  /\ optimal[1] \in CheapestFeasible
                  /\ \A r \in CheapestFeasible : optimal[1].Iteration <= r.Iteration

\* Two feasible systems tie at the minimal NPC and the one returned is not
\* the one the source's order returns.
C22_Witness ==
    /\ SearchOver
    /\ optimal # <<>>
    /\ Cardinality(CheapestFeasible) = 2
    /\ CapacitiesOf(optimal[1]) # CapacitiesOf(find_optimal_solution(SourceRows)[1])

====
